---- MODULE Spec2Model ----
(***************************************************************************)
(* State-machine model of the RF engine (src/rf/rf.c) of the SDR spectrum  *)
(* monitoring sensor: the byte ring of src/rf/libs/ring_buffer.c, the RF   *)
(* callback, the control callback, and the orchestrator loop of main().    *)
(*                                                                         *)
(* Two specifications live here:                                           *)
(*   SpecRing  one ring driven by arbitrary interleavings of rb_write,     *)
(*             rb_read, rb_available and rb_reset (each one atomic: every   *)
(*             operation holds rb->lock from entry to return);             *)
(*   Spec      the threads of rf.c around the two rings.                   *)
(***************************************************************************)
EXTENDS Integers, Sequences, FiniteSets, TLC

(***************************************************************************)
(* Bounds of the model.                                                    *)
(***************************************************************************)
\* arena size of the ring exercised by SpecRing (the program uses 100 MiB
\* and 256 KiB; the cursor arithmetic is the same for any size >= 1)
RingSize == 3
\* longest fragment handed to rb_write / longest read asked of rb_read
MaxLen == 4
\* SpecRing stops writing once head would pass this value
MaxHead == 7

\* the byte values a fragment may hold; 0 is also what a zeroed arena holds
Byte == {0, 1}

\* all fragments of at most n bytes
Fragments(n) == UNION {[1..k -> Byte] : k \in 0..n}

\* messages the controller sends during a run
MaxMsgs == 2
\* polls of the acquisition wait before it gives up (the program: 500)
PollBudget == 2

VARIABLES
    \* ---- globals of rf.c
    rb,                   \* ring_buffer_t rb (rf.c:90): [buffer, size, head, tail]
    audio_rb,             \* ring_buffer_t audio_rb (rf.c:91)
    audio_enabled,        \* atomic_bool (rf.c:99)
    stop_streaming,       \* volatile bool (rf.c:100)
    config_received,      \* volatile bool (rf.c:101)
    keep_running,         \* volatile bool (rf.c:102)
    audio_thread_running, \* volatile bool (rf.c:105)
    cfg_mutex,            \* owner of cfg_mutex (rf.c:106): "none", "main", "listener"
    desired_config,       \* DesiredCfg_t (rf.c:114)
    psd_cfg,              \* PsdConfig_t  (rf.c:115)
    hack_cfg,             \* SDR_cfg_t    (rf.c:116)
    rb_cfg,               \* RB_cfg_t     (rf.c:117)
    current_hw_cfg,       \* SDR_cfg_t    (rf.c:118)
    device,               \* hackrf_device* (rf.c:82): "NULL" or "dev"
    \* ---- main(): position and locals
    m_pc,
    local_hack, local_rb, local_psd, local_desired,
    audio_thread_created,
    audio_ctx,            \* [current_mode, current_fs_hz] of audio_stream_ctx_t
    safety_timeout,
    attempts,             \* recover_hackrf's counter
    \* ---- control listener thread (zmq_util.c) running on_command_received
    pair_running,         \* zpair_t.running
    l_pc,
    temp_desired,
    \* ---- RF driver thread running rx_callback
    rx_on,                \* the driver is streaming (between start_rx and stop_rx/close)
    cb_pc,
    transfer,             \* hackrf_transfer: the bytes of the current callback
    \* ---- audio worker thread
    aw_pc,
    \* ---- environment and history
    inbox,                \* control messages sent and not yet received
    msgs,                 \* history: every message sent, and whether the result
                          \* of the message before it had been published by then
    results,              \* history: msg id of every result document published
    docs,                 \* history: every result document published
    tunes,                \* history: number of hackrf_apply_cfg calls (tune events)
    closedSinceResult,    \* history: a result was published and the device closed since
    cb_took,              \* history: bytes the main ring took from the running callback
    stale,                \* history: unread bytes of rb written before the reset of
                          \* the latest tune
    hw_state,             \* history: "applied" once hackrf_apply_cfg has run and the
                          \* device has not been closed since; else how it was last
                          \* closed ("idle_closed", "rec_closed") or "fresh"
    fault,                \* "none", or the fatal signal that ended the process
    \* ---- audio_thread_fn in full (exercised by SpecAudio)
    tx,                   \* opus_tx_t *tx: NullTx or [conn, seq, sock_fd]
    raw_iq_chunk,         \* the chunk buffer rb_read fills
    pcm_out,              \* the demodulator's output for the chunk (samples_gen = Len)
    idx,                  \* samples of pcm_out already copied to the accumulator
    pcm_accum,            \* the frame accumulator (accum_len = Len)
    left,                 \* sleep_cancelable_ms: milliseconds left to sleep
    ens_from,             \* which call of ensure_tx_with_retry is running: "top", "mid"
    conns,                \* history: connections made so far
    wire,                 \* history: the latest frame put on the TCP connection
    enc_in,               \* history: the latest frame handed to the encoder
    produced,             \* history: samples the demodulators have produced so far
    epoch,                \* history: retunes so far
    \* ---- a library function called on its own (exercised by SpecFn)
    fn_in,                \* the call: [fn, ...arguments], or NoCall
    fn_out,               \* what the call returned and left behind, or NoCall
    \* ---- history of the ring exercised by SpecRing
    wlog,      \* bytes accepted by rb_write on rb since init/reset
    rlog,      \* bytes returned by rb_read on rb since init/reset
    sumW,      \* sum of rb_write return values since init/reset
    sumR,      \* sum of rb_read return values since init/reset
    last       \* the latest ring operation, its arguments and result

ringVars == <<wlog, rlog, sumW, sumR, last>>

audioVars == <<tx, raw_iq_chunk, pcm_out, idx, pcm_accum, left, ens_from, conns,
               wire, enc_in, produced, epoch>>

fnVars == <<fn_in, fn_out>>

sysVars == <<audio_rb, audio_enabled, stop_streaming, config_received,
             keep_running, audio_thread_running, cfg_mutex, desired_config,
             psd_cfg, hack_cfg, rb_cfg, current_hw_cfg, device, m_pc,
             local_hack, local_rb, local_psd, local_desired,
             audio_thread_created, audio_ctx, safety_timeout, attempts,
             pair_running, l_pc, temp_desired, rx_on, cb_pc, transfer, aw_pc,
             inbox, msgs, results, tunes, closedSinceResult, cb_took, fault,
             stale, hw_state, docs>>

vars == <<rb, sysVars, ringVars, audioVars, fnVars>>

(***************************************************************************)
(* ring_buffer.c                                                           *)
(***************************************************************************)
MIN(a, b) == IF a < b THEN a ELSE b

\* rb_init: calloc'ed arena, both cursors 0
rb_init(size) ==
    [buffer |-> [i \in 0..(size - 1) |-> 0], size |-> size, head |-> 0, tail |-> 0]

\* variant of rb_reset that rewinds the cursors but leaves the arena as it is
rb_reset_NoMemset(r) ==
    [r EXCEPT !.head = 0, !.tail = 0]

\* variant of rb_reset that clears the arena but leaves the cursors where
\* they are
rb_reset_KeepCursors(r) ==
    [r EXCEPT !.buffer = [i \in 0..(r.size - 1) |-> 0]]

\* rb_reset: memset the arena to 0, head = tail = 0
rb_reset(r) ==
    [r EXCEPT !.buffer = [i \in 0..(r.size - 1) |-> 0], !.head = 0, !.tail = 0]

\* variant of rb_write that does not limit len by the free space
rb_write_Unbounded(r, data, len) ==
    LET to_write   == len
        head_idx   == r.head % r.size
        chunk1     == MIN(to_write, r.size - head_idx)
        chunk2     == to_write - chunk1
    IN  IF to_write = 0
        THEN [rb |-> r, ret |-> 0]
        ELSE [rb |-> [r EXCEPT
                        !.buffer = [i \in 0..(r.size - 1) |->
                            IF i < chunk2 THEN data[chunk1 + i + 1]
                            ELSE IF i >= head_idx /\ i < head_idx + chunk1
                                 THEN data[i - head_idx + 1]
                                 ELSE r.buffer[i]],
                        !.head = r.head + to_write],
              ret |-> to_write]

\* variant of rb_write whose second memcpy copies from the start of the
\* fragment instead of from data + chunk1
rb_write_BadWrap(r, data, len) ==
    LET space_free == r.size - (r.head - r.tail)
        to_write   == MIN(len, space_free)
        head_idx   == r.head % r.size
        chunk1     == MIN(to_write, r.size - head_idx)
        chunk2     == to_write - chunk1
    IN  IF to_write = 0
        THEN [rb |-> r, ret |-> 0]
        ELSE [rb |-> [r EXCEPT
                        !.buffer = [i \in 0..(r.size - 1) |->
                            IF i < chunk2 THEN data[i + 1]
                            ELSE IF i >= head_idx /\ i < head_idx + chunk1
                                 THEN data[i - head_idx + 1]
                                 ELSE r.buffer[i]],
                        !.head = r.head + to_write],
              ret |-> to_write]

\* variant of rb_write that accepts a fragment only when all of it fits
rb_write_AllOrNothing(r, data, len) ==
    LET space_free == r.size - (r.head - r.tail)
        to_write   == IF len <= space_free THEN len ELSE 0
        head_idx   == r.head % r.size
        chunk1     == MIN(to_write, r.size - head_idx)
        chunk2     == to_write - chunk1
    IN  IF to_write = 0
        THEN [rb |-> r, ret |-> 0]
        ELSE [rb |-> [r EXCEPT
                        !.buffer = [i \in 0..(r.size - 1) |->
                            IF i < chunk2 THEN data[chunk1 + i + 1]
                            ELSE IF i >= head_idx /\ i < head_idx + chunk1
                                 THEN data[i - head_idx + 1]
                                 ELSE r.buffer[i]],
                        !.head = r.head + to_write],
              ret |-> to_write]

\* variant of rb_write that, on a full ring, makes room by discarding the
\* oldest unread bytes (advancing tail) instead of dropping the fragment
rb_write_Overwrite(r, data, len) ==
    LET to_write   == MIN(len, r.size)
        space_free == r.size - (r.head - r.tail)
        evict      == IF to_write > space_free THEN to_write - space_free ELSE 0
        head_idx   == r.head % r.size
        chunk1     == MIN(to_write, r.size - head_idx)
        chunk2     == to_write - chunk1
    IN  IF to_write = 0
        THEN [rb |-> r, ret |-> 0]
        ELSE [rb |-> [r EXCEPT
                        !.buffer = [i \in 0..(r.size - 1) |->
                            IF i < chunk2 THEN data[chunk1 + i + 1]
                            ELSE IF i >= head_idx /\ i < head_idx + chunk1
                                 THEN data[i - head_idx + 1]
                                 ELSE r.buffer[i]],
                        !.head = r.head + to_write,
                        !.tail = r.tail + evict],
              ret |-> to_write]

\* rb_write: result is the ring after the call and the value returned.
\* The second memcpy (chunk2, at offset 0) runs after the first (chunk1, at
\* head_idx).
rb_write(r, data, len) ==
    LET space_free == r.size - (r.head - r.tail)
        to_write   == MIN(len, space_free)
        head_idx   == r.head % r.size
        chunk1     == MIN(to_write, r.size - head_idx)
        chunk2     == to_write - chunk1
    IN  IF to_write = 0
        THEN [rb |-> r, ret |-> 0]
        ELSE [rb |-> [r EXCEPT
                        !.buffer = [i \in 0..(r.size - 1) |->
                            IF i < chunk2 THEN data[chunk1 + i + 1]
                            ELSE IF i >= head_idx /\ i < head_idx + chunk1
                                 THEN data[i - head_idx + 1]
                                 ELSE r.buffer[i]],
                        !.head = r.head + to_write],
              ret |-> to_write]

\* rb_read: result is the ring after the call, the value returned and the
\* bytes copied to the destination.
rb_read(r, len) ==
    LET available == r.head - r.tail
        to_read   == MIN(len, available)
        tail_idx  == r.tail % r.size
        chunk1    == MIN(to_read, r.size - tail_idx)
        chunk2    == to_read - chunk1
    IN  IF to_read = 0
        THEN [rb |-> r, ret |-> 0, data |-> <<>>]
        ELSE [rb |-> [r EXCEPT !.tail = r.tail + to_read],
              ret |-> to_read,
              data |-> [k \in 1..to_read |->
                          IF k <= chunk1 THEN r.buffer[tail_idx + k - 1]
                                         ELSE r.buffer[k - chunk1 - 1]]]

\* variant of rb_available that subtracts the arena indices, not the cursors
rb_available_Indices(r) == (r.head % r.size) - (r.tail % r.size)

\* rb_available
rb_available(r) == r.head - r.tail

(***************************************************************************)
(* Control payloads and parser.c                                           *)
(***************************************************************************)
\* A JSON item is <<v>> when the document holds the key with value v, and
\* Absent when cJSON_GetObjectItem returns NULL for it
Absent == <<>>

\* rf_mode_t (datatypes.h)
PSD_MODE == "PSD_MODE"
FM_MODE  == "FM_MODE"
AM_MODE  == "AM_MODE"
\* parser.c names REALTIME_MODE and CAMPAIGN_MODE, which no header under the
\* sources declares; the documented default mode is PSD
REALTIME_MODE == PSD_MODE
CAMPAIGN_MODE == "CAMPAIGN_MODE"

\* The control documents the controller may send.  json = FALSE is a text
\* that cJSON_Parse rejects.  Frequencies are in MHz and sample rates in
\* bytes-per-acquisition units, so that the rings of the model can hold an
\* acquisition.
Doc(mode, cf, sr, lna, vga) ==
    [json |-> TRUE, rf_mode |-> mode, center_freq_hz |-> cf, sample_rate_hz |-> sr,
     lna_gain |-> lna, vga_gain |-> vga, antenna_amp |-> Absent,
     antenna_port |-> Absent, ppm_error |-> Absent, rbw_hz |-> Absent,
     overlap |-> Absent, window |-> Absent]

P_fm        == Doc(<<"FM">>, <<98>>, <<1>>, <<16>>, <<20>>)
P_psd100    == Doc(Absent, <<100>>, <<1>>, <<16>>, <<20>>)
P_empty     == Doc(Absent, Absent, Absent, Absent, Absent)
P_malformed == [P_empty EXCEPT !.json = FALSE]

Payloads == {P_fm, P_psd100, P_empty, P_malformed}

\* strdup_lowercase, on the strings the documents use
strdup_lowercase(str) ==
    CASE str = "FM" -> "fm"
      [] str = "AM" -> "am"
      [] str = "PSD" -> "psd"
      [] str = "Hann" -> "hann"
      [] str = "FlatTop" -> "flattop"
      [] OTHER -> str

\* PsdWindowType_t (datatypes.h)
PsdWindowType_t == {"HAMMING_TYPE", "HANN_TYPE", "RECTANGULAR_TYPE", "BLACKMAN_TYPE",
                    "FLAT_TOP_TYPE", "KAISER_TYPE", "TUKEY_TYPE", "BARTLETT_TYPE"}

\* resolve_window_enum
resolve_window_enum(window_str_lower) ==
    CASE window_str_lower = "hann" -> "HANN_TYPE"
      [] window_str_lower = "rectangular" -> "RECTANGULAR_TYPE"
      [] window_str_lower = "blackman" -> "BLACKMAN_TYPE"
      [] window_str_lower = "hamming" -> "HAMMING_TYPE"
      [] window_str_lower = "flattop" -> "FLAT_TOP_TYPE"
      [] window_str_lower = "kaiser" -> "KAISER_TYPE"
      [] window_str_lower = "tukey" -> "TUKEY_TYPE"
      [] window_str_lower = "bartlett" -> "BARTLETT_TYPE"
      [] OTHER -> "HAMMING_TYPE"

\* cJSON_IsNumber(item) ? (cast)item->valuedouble : the value set before
NumberOr(item, dflt) == IF item = Absent THEN dflt ELSE item[1]

\* variant of parse_config_rf without the checks that return -1
parse_config_rf_NoReject(json_string) ==
    [ret |-> 0,
     target |-> [rf_mode |-> REALTIME_MODE, center_freq |-> NumberOr(json_string.center_freq_hz, 0),
                 sample_rate |-> NumberOr(json_string.sample_rate_hz, 0),
                 lna_gain |-> NumberOr(json_string.lna_gain, 0),
                 vga_gain |-> NumberOr(json_string.vga_gain, 0),
                 amp_enabled |-> FALSE, antenna_port |-> 1, ppm_error |-> 0,
                 rbw |-> 0, overlap |-> 0, window_type |-> "HAMMING_TYPE"]]

\* parse_config_rf: the value returned and the DesiredCfg_t left in *target.
\* A rejected document leaves the defaults in *target (and the fields read
\* before the validation); on_command_received ignores them.
parse_config_rf(json_string) ==
    LET defaults == [rf_mode |-> REALTIME_MODE, center_freq |-> 0, sample_rate |-> 0,
                     lna_gain |-> 0, vga_gain |-> 0, amp_enabled |-> FALSE,
                     antenna_port |-> 1, ppm_error |-> 0, rbw |-> 0,
                     overlap |-> 0, window_type |-> "HAMMING_TYPE"]
        clean_mode == IF json_string.rf_mode = Absent THEN ""
                      ELSE strdup_lowercase(json_string.rf_mode[1])
        mode == CASE json_string.rf_mode = Absent -> REALTIME_MODE
                  [] clean_mode = "realtime" -> REALTIME_MODE
                  [] clean_mode = "campaign" -> CAMPAIGN_MODE
                  [] clean_mode = "fm" -> FM_MODE
                  [] clean_mode = "am" -> AM_MODE
                  [] OTHER -> REALTIME_MODE
        filled == [rf_mode |-> mode,
                   center_freq |-> NumberOr(json_string.center_freq_hz, 0),
                   sample_rate |-> NumberOr(json_string.sample_rate_hz, 0),
                   lna_gain |-> NumberOr(json_string.lna_gain, 0),
                   vga_gain |-> NumberOr(json_string.vga_gain, 0),
                   amp_enabled |-> IF json_string.antenna_amp = Absent
                                   THEN FALSE ELSE json_string.antenna_amp[1],
                   antenna_port |-> NumberOr(json_string.antenna_port, 1),
                   ppm_error |-> NumberOr(json_string.ppm_error, 0),
                   rbw |-> NumberOr(json_string.rbw_hz, 0),
                   overlap |-> NumberOr(json_string.overlap, 0),
                   window_type |-> IF json_string.window = Absent
                                   THEN "HAMMING_TYPE"
                                   ELSE resolve_window_enum(
                                            strdup_lowercase(json_string.window[1]))]
    IN  IF ~json_string.json
        THEN [ret |-> -1, target |-> defaults]
        ELSE IF filled.center_freq = 0 /\ filled.sample_rate = 0
             THEN [ret |-> -1, target |-> filled]
             ELSE [ret |-> 0, target |-> filled]

\* get_window_enbw_factor, in thousandths
get_window_enbw_factor(type) ==
    CASE type = "RECTANGULAR_TYPE" -> 1000
      [] type = "HAMMING_TYPE" -> 1363
      [] type = "HANN_TYPE" -> 1500
      [] type = "BLACKMAN_TYPE" -> 1730
      [] type = "FLAT_TOP_TYPE" -> 3770
      [] type = "BARTLETT_TYPE" -> 1330
      [] type = "KAISER_TYPE" -> 1800
      [] type = "TUKEY_TYPE" -> 1500
      [] OTHER -> 1363

\* (int)ceil(log2(a / b)) for a > 0 and b > 0: the least e with 2^e >= a / b
RECURSIVE CeilLog2(_, _)
CeilLog2(a, b) ==
    IF a > b THEN CeilLog2(a, 2 * b) + 1
    ELSE IF 2 * a <= b THEN CeilLog2(2 * a, b) - 1
    ELSE 0

\* (int)pow(2, exponent): a power below one truncates to zero
IntPow2(exponent) == IF exponent < 0 THEN 0 ELSE 2 ^ exponent

\* (int)x for the double x = num / den, den > 0: truncation towards zero
IntCast(num, den) == IF num >= 0 THEN num \div den ELSE -((-num) \div den)

\* DesiredCfg_t.overlap is a double; the documents give it in quarters
OverlapDen == 4

\* if (psd_cfg->noverlap >= psd_cfg->nperseg) noverlap = nperseg - 1
clamp_noverlap(noverlap, nperseg) ==
    IF noverlap >= nperseg THEN nperseg - 1 ELSE noverlap

\* find_params_psd: the SDR_cfg_t, PsdConfig_t and RB_cfg_t derived from a
\* DesiredCfg_t.  With a sample rate that is not positive the exponent is
\* the conversion of minus infinity or of a NaN to int, which C leaves
\* undefined: the x86 and ARM conversions give INT_MIN or 0, so that the
\* power is 0 or 1 and nperseg is clamped to 256 in either case.
find_params_psd(desired) ==
    LET enbw_factor == get_window_enbw_factor(desired.window_type)
        safe_rbw == IF desired.rbw > 0 THEN desired.rbw ELSE 1000
        exponent == CeilLog2(enbw_factor * desired.sample_rate, 1000 * safe_rbw)
        pow2 == IF desired.sample_rate <= 0 THEN 0 ELSE IntPow2(exponent)
        nperseg == IF pow2 < 256 THEN 256 ELSE pow2
        noverlap == IntCast(nperseg * desired.overlap, OverlapDen)
    IN
    [hack |-> [sample_rate |-> desired.sample_rate, center_freq |-> desired.center_freq,
               amp_enabled |-> desired.amp_enabled, lna_gain |-> desired.lna_gain,
               vga_gain |-> desired.vga_gain, ppm_error |-> desired.ppm_error],
     psd  |-> [window_type |-> desired.window_type,
               sample_rate |-> desired.sample_rate,
               nperseg |-> nperseg,
               noverlap |-> clamp_noverlap(noverlap, nperseg)],
     rb   |-> [total_bytes |-> desired.sample_rate * 2]]

\* variant of publish_results that puts the band edges a whole sample rate
\* away from the centre
publish_results_FullSpan(length, lh, rf_mode) ==
    IF length <= 0 THEN <<>>
    ELSE <<[start_freq_hz |-> <<2 * lh.center_freq - 2 * lh.sample_rate, 2>>,
            end_freq_hz |-> <<2 * lh.center_freq + 2 * lh.sample_rate, 2>>,
            metric |-> IF rf_mode = FM_MODE THEN "excursion_hz"
                       ELSE IF rf_mode = AM_MODE THEN "depth" ELSE "none",
            Pxx |-> length]>>

\* publish_results: the documents handed to zpair_send (none when
\* length <= 0).  A frequency is the pair <<numerator, 2>> of the double
\* center -/+ fs / 2.0; Pxx is the number of entries of the array; metric is
\* the key added between the band edges and Pxx, if any.
publish_results(length, lh, rf_mode) ==
    IF length <= 0 THEN <<>>
    ELSE <<[start_freq_hz |-> <<2 * lh.center_freq - lh.sample_rate, 2>>,
            end_freq_hz |-> <<2 * lh.center_freq + lh.sample_rate, 2>>,
            metric |-> IF rf_mode = FM_MODE THEN "excursion_hz"
                       ELSE IF rf_mode = AM_MODE THEN "depth" ELSE "none",
            Pxx |-> length]>>

\* a zero-initialised struct of each kind ("= {0}"); msg tags a struct with
\* the control message it was derived from (0: none)
ZeroDesired == [rf_mode |-> PSD_MODE, center_freq |-> 0, sample_rate |-> 0,
                lna_gain |-> 0, vga_gain |-> 0, amp_enabled |-> FALSE,
                antenna_port |-> 0, ppm_error |-> 0, rbw |-> 0, overlap |-> 0,
                window_type |-> "HAMMING_TYPE", msg |-> 0]
ZeroHack == [sample_rate |-> 0, center_freq |-> 0, amp_enabled |-> FALSE,
             lna_gain |-> 0, vga_gain |-> 0, ppm_error |-> 0, msg |-> 0]
ZeroPsd == [window_type |-> "HAMMING_TYPE", sample_rate |-> 0, nperseg |-> 0,
            noverlap |-> 0, msg |-> 0]
ZeroRbCfg == [total_bytes |-> 0, msg |-> 0]

Tag(struct, id) == [f \in (DOMAIN struct) \cup {"msg"} |->
                       IF f = "msg" THEN id ELSE struct[f]]

\* a ring_buffer_t in static storage before rb_init, or after rb_free
\* nulled its buffer
ZeroRing == [buffer |-> <<>>, size |-> 0, head |-> 0, tail |-> 0]

\* the unread bytes of a ring, oldest first, taken straight from the arena
Unread(r) == [k \in 1..(r.head - r.tail) |-> r.buffer[(r.tail + k - 1) % r.size]]

\* the last n elements of a sequence (all of it when it is shorter)
Tail_n(s, n) == IF Len(s) <= n THEN s ELSE SubSeq(s, Len(s) - n + 1, Len(s))

IsPrefix(s, t) == Len(s) <= Len(t) /\ SubSeq(t, 1, Len(s)) = s

(***************************************************************************)
(* The threads of rf.c                                                     *)
(***************************************************************************)
\* arena size of the main ring, in bytes (the program: 100 MiB)
MainRingSize == 3
\* bytes of one audio chunk, AUDIO_CHUNK_SAMPLES * 2 (the program: 32768)
AudioChunkBytes == 2
\* arena size of the audio ring (the program: 8 chunks)
AUDIO_BUFFER_SIZE == AudioChunkBytes * 2
\* open attempts of one recover_hackrf call
RecoverAttempts == 3
\* the driver stops delivering transfers once a ring cursor would pass this
MaxCursor == 4

\* the transfers the RF driver may deliver (valid_length = Len)
Transfers == {<<>>, <<1, 0>>}

\* the head cursor of a ring after an rb_write of len bytes
HeadAfter(r, len) == r.head + MIN(len, r.size - (r.head - r.tail))

\* rb_free: the arena is released and the pointer nulled; size and cursors stay
rb_free(r) == [r EXCEPT !.buffer = <<>>]

\* the ring's buffer pointer is NULL although its size is not 0
NullArena(r) == r.size > 0 /\ r.buffer = <<>>

\* variant of pthread_mutex_lock that never waits
MutexAvailable_NoLock(m) == TRUE

\* pthread_mutex_lock(&cfg_mutex) returns once no thread owns the mutex
MutexAvailable(m) == m = "none"

\* variant of the retune predicate that always retunes
needs_tune_Always(lh, hw) == TRUE

\* variant of the retune predicate that compares the gains only
needs_tune_GainsOnly(lh, hw) ==
    \/ lh.lna_gain # hw.lna_gain
    \/ lh.vga_gain # hw.vga_gain

\* variant of the retune predicate that does not compare the center frequency
needs_tune_NoCenter(lh, hw) ==
    \/ lh.sample_rate # hw.sample_rate
    \/ lh.lna_gain # hw.lna_gain
    \/ lh.vga_gain # hw.vga_gain

\* the lazy-retune predicate of main()
needs_tune(lh, hw) ==
    \/ lh.center_freq # hw.center_freq
    \/ lh.sample_rate # hw.sample_rate
    \/ lh.lna_gain # hw.lna_gain
    \/ lh.vga_gain # hw.vga_gain

\* variant of the loop test of recover_hackrf that never gives up
recover_retry_NoLimit(n, running) == running

\* recover_hackrf: while (attempts < 3 && keep_running)
recover_retry(n, running) == n < RecoverAttempts /\ running

\* hackrf_apply_cfg: one more tune event, counted in tunes
hackrf_apply_cfg(n, dev, cfg) == IF dev = "NULL" THEN n ELSE n + 1

\* variant of the audio branch of rx_callback that never feeds the audio ring
audio_branch_Never(arb, enabled, buf, len) == arb

\* rx_callback: if (atomic_load(&audio_enabled)) rb_write(&audio_rb, ...)
audio_branch(arb, enabled, buf, len) ==
    IF enabled THEN rb_write(arb, buf, len).rb ELSE arb

(***************************************************************************)
(* The audio worker: opus_tx.c, net_audio_retry.c and the data of          *)
(* audio_thread_fn                                                         *)
(***************************************************************************)
\* samples of one Opus frame, frame_samples (the program: 48000 * 20 / 1000)
FrameSamples == 2
\* most samples a demodulator returns for one chunk
MaxGen == 3
\* the demodulators stop producing after this many samples
MaxSamples == 6
\* connections the peer accepts during a run
MaxConns == 2
\* retunes during a run
MaxRetunes == 1
\* the RF callback stops feeding the audio ring once head would pass this
AudioMaxCursor == 8

\* net_audio_retry.h, and the step of sleep_cancelable_ms
RECONNECT_DELAY_MS == 1000
SleepStepMs == 100
\* sizeof(opus_out) in opus_tx_send_frame: the most opus_encode may return
OpusOutSize == 1500
\* 'OPU0'
OpusMagic == 1330664752
\* AUDIO_FS and the channel count of audio_stream_ctx_defaults
AUDIO_FS == 48000
OpusChannels == 1

\* the payload sizes opus_encode returns in the model
EncodedSizes == {1, OpusOutSize}

\* htonl / ntohl, htons / ntohs: a value as its bytes in network order
\* (uint32_t values stay below 2^31 here: seq would wrap only after 2^32
\* frames on one connection)
htonl(x) == <<(x \div 16777216) % 256, (x \div 65536) % 256, (x \div 256) % 256, x % 256>>
ntohl(b) == b[1] * 16777216 + b[2] * 65536 + b[3] * 256 + b[4]
htons(x) == <<(x \div 256) % 256, x % 256>>
ntohs(b) == b[1] * 256 + b[2]

\* variant of the header of opus_tx_send_frame whose payload_len counts the
\* header too
OpusFrameHeader_LenWithHeader(seq, sample_rate, channels, n) ==
    [magic       |-> htonl(OpusMagic),
     seq         |-> htonl(seq),
     sample_rate |-> htonl(sample_rate),
     channels    |-> htons(channels % 65536),
     payload_len |-> htons((n + 16) % 65536)]

\* OpusFrameHeader as opus_tx_send_frame fills it (packed, network order)
OpusFrameHeader(seq, sample_rate, channels, n) ==
    [magic       |-> htonl(OpusMagic),
     seq         |-> htonl(seq),
     sample_rate |-> htonl(sample_rate),
     channels    |-> htons(channels % 65536),
     payload_len |-> htons(n % 65536)]

\* sizeof(OpusFrameHeader)
HeaderLen(h) ==
    Len(h.magic) + Len(h.seq) + Len(h.sample_rate) + Len(h.channels) + Len(h.payload_len)

\* the options of a socket as socket() returns it: no keep-alive, blocking
\* send and recv without a timeout
DefaultSockOpts ==
    [keepalive |-> FALSE, keepidle_s |-> 0, keepintvl_s |-> 0, keepcnt |-> 0,
     sndtimeo_ms |-> 0, rcvtimeo_ms |-> 0]

\* connect_tcp of opus_tx.c: socket(), connect(); no option is set
connect_tcp == DefaultSockOpts

\* connect_tcp_net_audio of net_audio_retry.c: set_sock_timeouts(fd, 1500,
\* 1500) and enable_tcp_keepalive(fd) before connect()
connect_tcp_net_audio ==
    [keepalive |-> TRUE, keepidle_s |-> 10, keepintvl_s |-> 3, keepcnt |-> 3,
     sndtimeo_ms |-> 1500, rcvtimeo_ms |-> 1500]

\* opus_tx_t *tx == NULL; no frame on the wire yet; no frame encoded yet
NullTx == [conn |-> 0, seq |-> 0, sock_fd |-> DefaultSockOpts]
NoFrame == [conn |-> 0, hdr |-> <<>>, payload |-> 0, complete |-> FALSE, pcm |-> <<>>]
NoEnc == [conn |-> 0, pcm |-> <<>>]

\* opus_tx_create on success: a new socket and encoder, seq = 0
opus_tx_create(n) == [conn |-> n + 1, seq |-> 0, sock_fd |-> connect_tcp]

\* variant of the entry test of ensure_tx_with_retry that always reconnects
ensure_has_tx_Never(ptx) == FALSE

\* ensure_tx_with_retry: if (*ptx) return 0
ensure_has_tx(ptx) == ptx # NullTx

\* variant of accum_take that copies all that is left of the chunk
accum_take_Unbounded(samples_gen, i, accum_len) == samples_gen - i

\* the inner loop of audio_thread_fn: space = frame_samples - accum_len;
\* take = samples_gen - idx; if (take > space) take = space
accum_take(samples_gen, i, accum_len) ==
    MIN(samples_gen - i, FrameSamples - accum_len)

\* variant of after_send that ignores the value opus_tx_send_frame returns
after_send_Ignore(ret, t) ==
    [tx |-> t, pcm_accum |-> <<>>, left |-> 0, pc |-> "accum"]

\* what follows opus_tx_send_frame: on failure opus_tx_destroy, tx = NULL,
\* accum_len = 0, sleep_cancelable_ms(RECONNECT_DELAY_MS) and break;
\* on success accum_len = 0
after_send(ret, t) ==
    IF ret # 0
    THEN [tx |-> NullTx, pcm_accum |-> <<>>, left |-> RECONNECT_DELAY_MS,
          pc |-> "fail_sleep"]
    ELSE [tx |-> t, pcm_accum |-> <<>>, left |-> 0, pc |-> "accum"]

\* a transfer of one chunk captured while the hardware is in epoch e
TransferOf(e) == [i \in 1..AudioChunkBytes |-> e]

\* the oldest epoch among the bytes of a chunk
ChunkEpoch(chunk) == CHOOSE e \in {chunk[i] : i \in 1..Len(chunk)} :
                         \A i \in 1..Len(chunk) : e <= chunk[i]

\* the worker's data before audio_thread_fn runs
\* no library function is being called on its own
NoCall == [fn |-> "none"]

FnVarsZero ==
    /\ fn_in = NoCall
    /\ fn_out = NoCall

AudioVarsZero ==
    /\ tx = NullTx
    /\ raw_iq_chunk = [i \in 1..AudioChunkBytes |-> 0]
    /\ pcm_out = <<>>
    /\ idx = 0
    /\ pcm_accum = <<>>
    /\ left = 0
    /\ ens_from = "top"
    /\ conns = 0
    /\ wire = NoFrame
    /\ enc_in = NoEnc
    /\ produced = 0
    /\ epoch = 0

\* the state of the program when main() is entered
SysInit ==
    /\ audio_rb = ZeroRing
    /\ audio_enabled = FALSE
    /\ stop_streaming = TRUE
    /\ config_received = FALSE
    /\ keep_running = TRUE
    /\ audio_thread_running = FALSE
    /\ cfg_mutex = "none"
    /\ desired_config = ZeroDesired
    /\ psd_cfg = ZeroPsd
    /\ hack_cfg = ZeroHack
    /\ rb_cfg = ZeroRbCfg
    /\ current_hw_cfg = ZeroHack
    /\ device = "NULL"
    /\ m_pc = "zpair_start"
    /\ local_hack = ZeroHack
    /\ local_rb = ZeroRbCfg
    /\ local_psd = ZeroPsd
    /\ local_desired = ZeroDesired
    /\ audio_thread_created = FALSE
    /\ audio_ctx = [current_mode |-> FM_MODE, current_fs_hz |-> 2]
    /\ safety_timeout = 0
    /\ attempts = 0
    /\ pair_running = FALSE
    /\ l_pc = "none"
    /\ temp_desired = ZeroDesired
    /\ rx_on = FALSE
    /\ cb_pc = "idle"
    /\ transfer = <<>>
    /\ aw_pc = "none"
    /\ inbox = <<>>
    /\ msgs = <<>>
    /\ results = <<>>
    /\ tunes = 0
    /\ closedSinceResult = FALSE
    /\ cb_took = 0
    /\ fault = "none"
    /\ stale = 0
    /\ hw_state = "fresh"
    /\ docs = <<>>

Init ==
    /\ rb = ZeroRing
    /\ SysInit
    /\ AudioVarsZero
    /\ FnVarsZero
    /\ wlog = <<>>
    /\ rlog = <<>>
    /\ sumW = 0
    /\ sumR = 0
    /\ last = [op |-> "init", len |-> 0, data |-> <<>>, ret |-> 0, out |-> <<>>,
               pre |-> ZeroRing]

(***************************************************************************)
(* The controller and the signals (environment)                            *)
(***************************************************************************)

\* the controller sends one more control document
Ctl_send ==
    /\ fault = "none"
    /\ Len(msgs) < MaxMsgs
    /\ \E p \in Payloads :
           /\ inbox' = Append(inbox, [id |-> Len(msgs) + 1, payload |-> p])
           /\ msgs' = Append(msgs, [payload |-> p,
                                    afterResult |-> \E k \in 1..Len(results) :
                                                       results[k] = Len(msgs)])
    /\ UNCHANGED <<rb, audio_rb, audio_enabled, stop_streaming, config_received,
                 keep_running, audio_thread_running, cfg_mutex,
                 desired_config, psd_cfg, hack_cfg, rb_cfg, current_hw_cfg,
                 device, m_pc, local_hack, local_rb, local_psd, local_desired,
                 audio_thread_created, audio_ctx, safety_timeout, attempts,
                 pair_running, l_pc, temp_desired, rx_on, cb_pc, transfer,
                 aw_pc, results, tunes, closedSinceResult, cb_took, fault,
                 stale, hw_state, docs, ringVars, audioVars, fnVars>>

\* handle_sigint: SIGINT or SIGTERM is delivered
Sigint ==
    /\ fault = "none"
    /\ keep_running
    /\ keep_running' = FALSE
    /\ UNCHANGED <<rb, audio_rb, audio_enabled, stop_streaming, config_received,
                 audio_thread_running, cfg_mutex, desired_config, psd_cfg,
                 hack_cfg, rb_cfg, current_hw_cfg, device, m_pc, local_hack,
                 local_rb, local_psd, local_desired, audio_thread_created,
                 audio_ctx, safety_timeout, attempts, pair_running, l_pc,
                 temp_desired, rx_on, cb_pc, transfer, aw_pc, inbox, msgs,
                 results, tunes, closedSinceResult, cb_took, fault, stale,
                 hw_state, docs, ringVars, audioVars, fnVars>>

(***************************************************************************)
(* main(): start-up                                                        *)
(***************************************************************************)

\* zpair_init / zpair_start: the control listener thread starts
Main_zpair_start ==
    /\ fault = "none"
    /\ m_pc = "zpair_start"
    /\ pair_running' = TRUE
    /\ l_pc' = "recv"
    /\ m_pc' = "hackrf_init"
    /\ UNCHANGED <<rb, audio_rb, audio_enabled, stop_streaming, config_received,
                 keep_running, audio_thread_running, cfg_mutex,
                 desired_config, psd_cfg, hack_cfg, rb_cfg, current_hw_cfg,
                 device, local_hack, local_rb, local_psd, local_desired,
                 audio_thread_created, audio_ctx, safety_timeout, attempts,
                 temp_desired, rx_on, cb_pc, transfer, aw_pc, inbox, msgs,
                 results, tunes, closedSinceResult, cb_took, fault, stale,
                 hw_state, docs, ringVars, audioVars, fnVars>>

\* while (hackrf_init() != HACKRF_SUCCESS) sleep(5)
Main_hackrf_init ==
    /\ fault = "none"
    /\ m_pc = "hackrf_init"
    /\ \E ok \in BOOLEAN : m_pc' = IF ok THEN "rb_init" ELSE "hackrf_init"
    /\ UNCHANGED <<rb, audio_rb, audio_enabled, stop_streaming, config_received,
                 keep_running, audio_thread_running, cfg_mutex,
                 desired_config, psd_cfg, hack_cfg, rb_cfg, current_hw_cfg,
                 device, local_hack, local_rb, local_psd, local_desired,
                 audio_thread_created, audio_ctx, safety_timeout, attempts,
                 pair_running, l_pc, temp_desired, rx_on, cb_pc, transfer,
                 aw_pc, inbox, msgs, results, tunes, closedSinceResult,
                 cb_took, fault, stale, hw_state, docs, ringVars, audioVars,
                 fnVars>>

\* rb_init(&rb, FIXED_BUFFER_SIZE)
Main_rb_init ==
    /\ fault = "none"
    /\ m_pc = "rb_init"
    /\ rb' = rb_init(MainRingSize)
    /\ m_pc' = "audio_rb_init"
    /\ UNCHANGED <<audio_rb, audio_enabled, stop_streaming, config_received,
                 keep_running, audio_thread_running, cfg_mutex,
                 desired_config, psd_cfg, hack_cfg, rb_cfg, current_hw_cfg,
                 device, local_hack, local_rb, local_psd, local_desired,
                 audio_thread_created, audio_ctx, safety_timeout, attempts,
                 pair_running, l_pc, temp_desired, rx_on, cb_pc, transfer,
                 aw_pc, inbox, msgs, results, tunes, closedSinceResult,
                 cb_took, fault, stale, hw_state, docs, ringVars, audioVars,
                 fnVars>>

\* rb_init(&audio_rb, AUDIO_BUFFER_SIZE) and the set-up of main's locals
Main_audio_rb_init ==
    /\ fault = "none"
    /\ m_pc = "audio_rb_init"
    /\ audio_rb' = rb_init(AUDIO_BUFFER_SIZE)
    /\ audio_thread_created' = FALSE
    /\ m_pc' = "idle"
    /\ UNCHANGED <<rb, audio_enabled, stop_streaming, config_received,
                 keep_running, audio_thread_running, cfg_mutex,
                 desired_config, psd_cfg, hack_cfg, rb_cfg, current_hw_cfg,
                 device, local_hack, local_rb, local_psd, local_desired,
                 audio_ctx, safety_timeout, attempts, pair_running, l_pc,
                 temp_desired, rx_on, cb_pc, transfer, aw_pc, inbox, msgs,
                 results, tunes, closedSinceResult, cb_took, fault, stale,
                 hw_state, docs, ringVars, audioVars, fnVars>>

(***************************************************************************)
(* main(): the orchestrator loop.  Steps that touch only main's own data   *)
(* are taken together with the next access to shared data.                 *)
(***************************************************************************)

\* variant of the idle test whose timeout branch leaves stop_streaming as it is
Main_idle_NoStopFlag ==
    /\ fault = "none"
    /\ m_pc = "idle"
    /\ IF ~keep_running
       THEN /\ m_pc' = "cleanup"
            /\ stop_streaming' = stop_streaming
       ELSE IF config_received
            THEN /\ m_pc' = "snap1"
                 /\ stop_streaming' = stop_streaming
            ELSE \E elapsed15 \in BOOLEAN :
                     IF elapsed15 /\ device # "NULL"
                     THEN /\ stop_streaming' = stop_streaming
                          /\ m_pc' = "idle_close"
                     ELSE /\ stop_streaming' = stop_streaming
                          /\ m_pc' = "idle"
    /\ UNCHANGED <<rb, audio_rb, audio_enabled, config_received, keep_running,
                 audio_thread_running, cfg_mutex, desired_config, psd_cfg,
                 hack_cfg, rb_cfg, current_hw_cfg, device, local_hack,
                 local_rb, local_psd, local_desired, audio_thread_created,
                 audio_ctx, safety_timeout, attempts, pair_running, l_pc,
                 temp_desired, rx_on, cb_pc, transfer, aw_pc, inbox, msgs,
                 results, tunes, closedSinceResult, cb_took, fault, stale,
                 hw_state, docs, ringVars, audioVars, fnVars>>

\* while (keep_running) { 1. idle / timeout management:
\* if (!config_received) { ...; continue; }   (elapsed >= 15.0 is an
\* arbitrary outcome of the clock)
Main_idle ==
    /\ fault = "none"
    /\ m_pc = "idle"
    /\ IF ~keep_running
       THEN /\ m_pc' = "cleanup"
            /\ stop_streaming' = stop_streaming
       ELSE IF config_received
            THEN /\ m_pc' = "snap1"
                 /\ stop_streaming' = stop_streaming
            ELSE \E elapsed15 \in BOOLEAN :
                     IF elapsed15 /\ device # "NULL"
                     THEN /\ stop_streaming' = TRUE
                          /\ m_pc' = "idle_close"
                     ELSE /\ stop_streaming' = stop_streaming
                          /\ m_pc' = "idle"
    /\ UNCHANGED <<rb, audio_rb, audio_enabled, config_received, keep_running,
                 audio_thread_running, cfg_mutex, desired_config, psd_cfg,
                 hack_cfg, rb_cfg, current_hw_cfg, device, local_hack,
                 local_rb, local_psd, local_desired, audio_thread_created,
                 audio_ctx, safety_timeout, attempts, pair_running, l_pc,
                 temp_desired, rx_on, cb_pc, transfer, aw_pc, inbox, msgs,
                 results, tunes, closedSinceResult, cb_took, fault, stale,
                 hw_state, docs, ringVars, audioVars, fnVars>>

\* variant of the idle-timeout close that leaves current_hw_cfg as it is
Main_idle_close_KeepHw ==
    /\ fault = "none"
    /\ m_pc = "idle_close"
    /\ cb_pc = "idle"
    /\ rx_on' = FALSE
    /\ device' = "NULL"
    /\ current_hw_cfg' = current_hw_cfg
    /\ closedSinceResult' = (results # <<>>)
    /\ hw_state' = "idle_closed"
    /\ m_pc' = "idle"
    /\ UNCHANGED <<rb, audio_rb, audio_enabled, stop_streaming, config_received,
                 keep_running, audio_thread_running, cfg_mutex,
                 desired_config, psd_cfg, hack_cfg, rb_cfg, local_hack,
                 local_rb, local_psd, local_desired, audio_thread_created,
                 audio_ctx, safety_timeout, attempts, pair_running, l_pc,
                 temp_desired, cb_pc, transfer, aw_pc, inbox, msgs, results,
                 tunes, cb_took, fault, stale, docs, ringVars, audioVars,
                 fnVars>>

\* idle timeout: hackrf_stop_rx (returns once no callback is running),
\* hackrf_close, device = NULL, memset(&current_hw_cfg, 0)
Main_idle_close ==
    /\ fault = "none"
    /\ m_pc = "idle_close"
    /\ cb_pc = "idle"
    /\ rx_on' = FALSE
    /\ device' = "NULL"
    /\ current_hw_cfg' = ZeroHack
    /\ closedSinceResult' = (results # <<>>)
    /\ hw_state' = "idle_closed"
    /\ m_pc' = "idle"
    /\ UNCHANGED <<rb, audio_rb, audio_enabled, stop_streaming, config_received,
                 keep_running, audio_thread_running, cfg_mutex,
                 desired_config, psd_cfg, hack_cfg, rb_cfg, local_hack,
                 local_rb, local_psd, local_desired, audio_thread_created,
                 audio_ctx, safety_timeout, attempts, pair_running, l_pc,
                 temp_desired, cb_pc, transfer, aw_pc, inbox, msgs, results,
                 tunes, cb_took, fault, stale, docs, ringVars, audioVars,
                 fnVars>>

\* 2. snapshot: pthread_mutex_lock(&cfg_mutex); memcpy local_hack, local_rb
Main_snap1 ==
    /\ fault = "none"
    /\ m_pc = "snap1"
    /\ MutexAvailable(cfg_mutex)
    /\ cfg_mutex' = "main"
    /\ local_hack' = hack_cfg
    /\ local_rb' = rb_cfg
    /\ m_pc' = "snap2"
    /\ UNCHANGED <<rb, audio_rb, audio_enabled, stop_streaming, config_received,
                 keep_running, audio_thread_running, desired_config, psd_cfg,
                 hack_cfg, rb_cfg, current_hw_cfg, device, local_psd,
                 local_desired, audio_thread_created, audio_ctx,
                 safety_timeout, attempts, pair_running, l_pc, temp_desired,
                 rx_on, cb_pc, transfer, aw_pc, inbox, msgs, results, tunes,
                 closedSinceResult, cb_took, fault, stale, hw_state, docs,
                 ringVars, audioVars, fnVars>>

\* variant of the snapshot that leaves config_received as it is
Main_snap2_NoClear ==
    /\ fault = "none"
    /\ m_pc = "snap2"
    /\ local_psd' = psd_cfg
    /\ local_desired' = desired_config
    /\ audio_ctx' = [current_mode |-> desired_config.rf_mode,
                     current_fs_hz |-> local_hack.sample_rate]
    /\ config_received' = config_received
    /\ cfg_mutex' = "none"
    /\ m_pc' = "tune"
    /\ UNCHANGED <<rb, audio_rb, audio_enabled, stop_streaming, keep_running,
                 audio_thread_running, desired_config, psd_cfg, hack_cfg,
                 rb_cfg, current_hw_cfg, device, local_hack, local_rb,
                 audio_thread_created, safety_timeout, attempts, pair_running,
                 l_pc, temp_desired, rx_on, cb_pc, transfer, aw_pc, inbox,
                 msgs, results, tunes, closedSinceResult, cb_took, fault,
                 stale, hw_state, docs, ringVars, audioVars, fnVars>>

\* memcpy local_psd, local_desired; publish mode/fs to the audio context;
\* config_received = false; pthread_mutex_unlock(&cfg_mutex)
Main_snap2 ==
    /\ fault = "none"
    /\ m_pc = "snap2"
    /\ local_psd' = psd_cfg
    /\ local_desired' = desired_config
    /\ audio_ctx' = [current_mode |-> desired_config.rf_mode,
                     current_fs_hz |-> local_hack.sample_rate]
    /\ config_received' = FALSE
    /\ cfg_mutex' = "none"
    /\ m_pc' = "tune"
    /\ UNCHANGED <<rb, audio_rb, audio_enabled, stop_streaming, keep_running,
                 audio_thread_running, desired_config, psd_cfg, hack_cfg,
                 rb_cfg, current_hw_cfg, device, local_hack, local_rb,
                 audio_thread_created, safety_timeout, attempts, pair_running,
                 l_pc, temp_desired, rx_on, cb_pc, transfer, aw_pc, inbox,
                 msgs, results, tunes, closedSinceResult, cb_took, fault,
                 stale, hw_state, docs, ringVars, audioVars, fnVars>>

\* 3. hardware prep: hackrf_open if device == NULL (else recover and
\* continue); needs_tune; if so hackrf_apply_cfg, memcpy to current_hw_cfg,
\* usleep, rb_reset(&rb)
Main_tune ==
    /\ fault = "none"
    /\ m_pc = "tune"
    /\ \E ok \in BOOLEAN :
           IF device = "NULL" /\ ~ok
           THEN /\ m_pc' = "rec_enter"
                /\ device' = device
                /\ tunes' = tunes
                /\ current_hw_cfg' = current_hw_cfg
                /\ rb' = rb
                /\ stale' = stale
                /\ hw_state' = hw_state
           ELSE /\ device' = "dev"
                /\ IF needs_tune(local_hack, current_hw_cfg)
                   THEN /\ tunes' = hackrf_apply_cfg(tunes, "dev", local_hack)
                        /\ current_hw_cfg' = [local_hack EXCEPT !.msg = 0]
                        /\ rb' = rb_reset(rb)
                        /\ stale' = rb_available(rb_reset(rb))
                        /\ hw_state' = "applied"
                        /\ m_pc' = "tune2"
                   ELSE /\ tunes' = tunes
                        /\ current_hw_cfg' = current_hw_cfg
                        /\ rb' = rb
                        /\ stale' = stale
                        /\ hw_state' = hw_state
                        /\ m_pc' = "start"
    /\ UNCHANGED <<audio_rb, audio_enabled, stop_streaming, config_received,
                 keep_running, audio_thread_running, cfg_mutex,
                 desired_config, psd_cfg, hack_cfg, rb_cfg, local_hack,
                 local_rb, local_psd, local_desired, audio_thread_created,
                 audio_ctx, safety_timeout, attempts, pair_running, l_pc,
                 temp_desired, rx_on, cb_pc, transfer, aw_pc, inbox, msgs,
                 results, closedSinceResult, cb_took, fault, docs, ringVars,
                 audioVars, fnVars>>

\* rb_reset(&audio_rb) after a tune
Main_tune2 ==
    /\ fault = "none"
    /\ m_pc = "tune2"
    /\ audio_rb' = rb_reset(audio_rb)
    /\ m_pc' = "start"
    /\ UNCHANGED <<rb, audio_enabled, stop_streaming, config_received,
                 keep_running, audio_thread_running, cfg_mutex,
                 desired_config, psd_cfg, hack_cfg, rb_cfg, current_hw_cfg,
                 device, local_hack, local_rb, local_psd, local_desired,
                 audio_thread_created, audio_ctx, safety_timeout, attempts,
                 pair_running, l_pc, temp_desired, rx_on, cb_pc, transfer,
                 aw_pc, inbox, msgs, results, tunes, closedSinceResult,
                 cb_took, fault, stale, hw_state, docs, ringVars, audioVars,
                 fnVars>>

\* if (!audio_thread_created) pthread_create(audio_thread_fn);
\* if (stop_streaming) { rb_reset(&rb); rb_reset(&audio_rb);
\* stop_streaming = false; hackrf_start_rx, else recover and continue }
Main_start_from(pc) ==
    /\ fault = "none"
    /\ m_pc = pc
    /\ \E created \in BOOLEAN :
           /\ audio_thread_created' = (audio_thread_created \/ created)
           /\ aw_pc' = IF ~audio_thread_created /\ created THEN "start" ELSE aw_pc
    /\ IF stop_streaming
       THEN /\ rb' = rb_reset(rb)
            /\ stale' = MIN(stale, rb_available(rb_reset(rb)))
            /\ audio_rb' = rb_reset(audio_rb)
            /\ stop_streaming' = FALSE
            /\ \E started \in BOOLEAN :
                   /\ rx_on' = started
                   /\ safety_timeout' = IF started THEN PollBudget ELSE 0
                   /\ m_pc' = IF started THEN "acq" ELSE "rec_enter"
       ELSE /\ rb' = rb
            /\ stale' = stale
            /\ audio_rb' = audio_rb
            /\ stop_streaming' = stop_streaming
            /\ rx_on' = rx_on
            /\ safety_timeout' = PollBudget
            /\ m_pc' = "acq"
    /\ UNCHANGED <<audio_enabled, config_received, keep_running,
                 audio_thread_running, cfg_mutex, desired_config, psd_cfg,
                 hack_cfg, rb_cfg, current_hw_cfg, device, local_hack,
                 local_rb, local_psd, local_desired, audio_ctx, attempts,
                 pair_running, l_pc, temp_desired, cb_pc, transfer, inbox,
                 msgs, results, tunes, closedSinceResult, cb_took, fault,
                 hw_state, docs, ringVars, audioVars, fnVars>>

Main_start == Main_start_from("start")

\* 4. acquisition: one turn of the wait loop, and the timeout test after it
Main_acq ==
    /\ fault = "none"
    /\ m_pc = "acq"
    /\ IF safety_timeout > 0 /\ keep_running
       THEN IF rb_available(rb) >= local_rb.total_bytes
            THEN /\ m_pc' = "process"
                 /\ safety_timeout' = 0
            ELSE /\ m_pc' = "acq"
                 /\ safety_timeout' = safety_timeout - 1
       ELSE /\ m_pc' = IF safety_timeout <= 0 /\ keep_running
                       THEN "rec_enter" ELSE "process"
            /\ safety_timeout' = 0
    /\ UNCHANGED <<rb, audio_rb, audio_enabled, stop_streaming, config_received,
                 keep_running, audio_thread_running, cfg_mutex,
                 desired_config, psd_cfg, hack_cfg, rb_cfg, current_hw_cfg,
                 device, local_hack, local_rb, local_psd, local_desired,
                 audio_thread_created, audio_ctx, attempts, pair_running,
                 l_pc, temp_desired, rx_on, cb_pc, transfer, aw_pc, inbox,
                 msgs, results, tunes, closedSinceResult, cb_took, fault,
                 stale, hw_state, docs, ringVars, audioVars, fnVars>>

\* 5. processing: malloc; rb_read(&rb, linear_buffer, total_bytes); the PSD;
\* publish_results unless an allocation or the load failed
Main_process ==
    /\ fault = "none"
    /\ m_pc = "process"
    /\ \E alloc \in BOOLEAN, sent \in BOOLEAN :
           /\ rb' = IF alloc THEN rb_read(rb, local_rb.total_bytes).rb ELSE rb
           /\ stale' = IF alloc
                       THEN stale - MIN(stale, rb_read(rb, local_rb.total_bytes).ret)
                       ELSE stale
           /\ results' = IF alloc /\ sent THEN Append(results, local_desired.msg)
                         ELSE results
           /\ docs' = IF alloc /\ sent
                      THEN docs \o publish_results(local_psd.nperseg, local_hack,
                                                   local_desired.rf_mode)
                      ELSE docs
           /\ closedSinceResult' = IF alloc /\ sent THEN FALSE ELSE closedSinceResult
    /\ m_pc' = "idle"
    /\ UNCHANGED <<audio_rb, audio_enabled, stop_streaming, config_received,
                 keep_running, audio_thread_running, cfg_mutex,
                 desired_config, psd_cfg, hack_cfg, rb_cfg, current_hw_cfg,
                 device, local_hack, local_rb, local_psd, local_desired,
                 audio_thread_created, audio_ctx, safety_timeout, attempts,
                 pair_running, l_pc, temp_desired, rx_on, cb_pc, transfer,
                 aw_pc, inbox, msgs, tunes, cb_took, fault, hw_state,
                 ringVars, audioVars, fnVars>>

(***************************************************************************)
(* recover_hackrf(), called from main()                                    *)
(***************************************************************************)

\* variant of the entry to recover_hackrf that also stops the audio worker
Main_rec_enter_StopsAudio ==
    /\ fault = "none"
    /\ m_pc = "rec_enter"
    /\ attempts' = 0
    /\ audio_thread_running' = FALSE
    /\ IF device # "NULL"
       THEN /\ stop_streaming' = TRUE
            /\ m_pc' = "rec_stop"
       ELSE /\ stop_streaming' = stop_streaming
            /\ m_pc' = "rec_try"
    /\ UNCHANGED <<rb, audio_rb, audio_enabled, config_received, keep_running,
                 cfg_mutex, desired_config, psd_cfg, hack_cfg, rb_cfg,
                 current_hw_cfg, device, local_hack, local_rb, local_psd,
                 local_desired, audio_thread_created, audio_ctx,
                 safety_timeout, pair_running, l_pc, temp_desired, rx_on,
                 cb_pc, transfer, aw_pc, inbox, msgs, results, tunes,
                 closedSinceResult, cb_took, fault, stale, hw_state, docs,
                 ringVars, audioVars, fnVars>>

\* recover_hackrf: if (device != NULL) stop_streaming = true ...
Main_rec_enter ==
    /\ fault = "none"
    /\ m_pc = "rec_enter"
    /\ attempts' = 0
    /\ IF device # "NULL"
       THEN /\ stop_streaming' = TRUE
            /\ m_pc' = "rec_stop"
       ELSE /\ stop_streaming' = stop_streaming
            /\ m_pc' = "rec_try"
    /\ UNCHANGED <<rb, audio_rb, audio_enabled, config_received, keep_running,
                 audio_thread_running, cfg_mutex, desired_config, psd_cfg,
                 hack_cfg, rb_cfg, current_hw_cfg, device, local_hack,
                 local_rb, local_psd, local_desired, audio_thread_created,
                 audio_ctx, safety_timeout, pair_running, l_pc, temp_desired,
                 rx_on, cb_pc, transfer, aw_pc, inbox, msgs, results, tunes,
                 closedSinceResult, cb_took, fault, stale, hw_state, docs,
                 ringVars, audioVars, fnVars>>

\* ... hackrf_stop_rx, hackrf_close, device = NULL
Main_rec_stop ==
    /\ fault = "none"
    /\ m_pc = "rec_stop"
    /\ cb_pc = "idle"
    /\ rx_on' = FALSE
    /\ device' = "NULL"
    /\ closedSinceResult' = (results # <<>>)
    /\ hw_state' = "rec_closed"
    /\ m_pc' = "rec_try"
    /\ UNCHANGED <<rb, audio_rb, audio_enabled, stop_streaming, config_received,
                 keep_running, audio_thread_running, cfg_mutex,
                 desired_config, psd_cfg, hack_cfg, rb_cfg, current_hw_cfg,
                 local_hack, local_rb, local_psd, local_desired,
                 audio_thread_created, audio_ctx, safety_timeout, attempts,
                 pair_running, l_pc, temp_desired, cb_pc, transfer, aw_pc,
                 inbox, msgs, results, tunes, cb_took, fault, stale, docs,
                 ringVars, audioVars, fnVars>>

\* while (attempts < 3 && keep_running) { hackrf_open ... }; back to the loop
Main_rec_try ==
    /\ fault = "none"
    /\ m_pc = "rec_try"
    /\ IF recover_retry(attempts, keep_running)
       THEN \E ok \in BOOLEAN :
                /\ device' = IF ok THEN "dev" ELSE device
                /\ current_hw_cfg' = IF ok THEN ZeroHack ELSE current_hw_cfg
                /\ attempts' = IF ok THEN 0 ELSE attempts + 1
                /\ m_pc' = IF ok THEN "idle" ELSE "rec_try"
       ELSE /\ device' = device
            /\ current_hw_cfg' = current_hw_cfg
            /\ attempts' = 0
            /\ m_pc' = "idle"
    /\ UNCHANGED <<rb, audio_rb, audio_enabled, stop_streaming, config_received,
                 keep_running, audio_thread_running, cfg_mutex,
                 desired_config, psd_cfg, hack_cfg, rb_cfg, local_hack,
                 local_rb, local_psd, local_desired, audio_thread_created,
                 audio_ctx, safety_timeout, pair_running, l_pc, temp_desired,
                 rx_on, cb_pc, transfer, aw_pc, inbox, msgs, results, tunes,
                 closedSinceResult, cb_took, fault, stale, hw_state, docs,
                 ringVars, audioVars, fnVars>>

(***************************************************************************)
(* main(): clean-up after the loop                                         *)
(***************************************************************************)

\* audio_thread_running = false
Main_cleanup ==
    /\ fault = "none"
    /\ m_pc = "cleanup"
    /\ audio_thread_running' = FALSE
    /\ m_pc' = "join_audio"
    /\ UNCHANGED <<rb, audio_rb, audio_enabled, stop_streaming, config_received,
                 keep_running, cfg_mutex, desired_config, psd_cfg, hack_cfg,
                 rb_cfg, current_hw_cfg, device, local_hack, local_rb,
                 local_psd, local_desired, audio_thread_created, audio_ctx,
                 safety_timeout, attempts, pair_running, l_pc, temp_desired,
                 rx_on, cb_pc, transfer, aw_pc, inbox, msgs, results, tunes,
                 closedSinceResult, cb_took, fault, stale, hw_state, docs,
                 ringVars, audioVars, fnVars>>

\* if (audio_thread_created) pthread_join(audio_thread); zpair_close clears running
Main_join_audio ==
    /\ fault = "none"
    /\ m_pc = "join_audio"
    /\ audio_thread_created => aw_pc = "exited"
    /\ pair_running' = FALSE
    /\ m_pc' = "join_listener"
    /\ UNCHANGED <<rb, audio_rb, audio_enabled, stop_streaming, config_received,
                 keep_running, audio_thread_running, cfg_mutex,
                 desired_config, psd_cfg, hack_cfg, rb_cfg, current_hw_cfg,
                 device, local_hack, local_rb, local_psd, local_desired,
                 audio_thread_created, audio_ctx, safety_timeout, attempts,
                 l_pc, temp_desired, rx_on, cb_pc, transfer, aw_pc, inbox,
                 msgs, results, tunes, closedSinceResult, cb_took, fault,
                 stale, hw_state, docs, ringVars, audioVars, fnVars>>

\* zpair_close: pthread_join of the listener; rb_free(&rb); rb_free(&audio_rb)
Main_join_listener ==
    /\ fault = "none"
    /\ m_pc = "join_listener"
    /\ l_pc = "exited"
    /\ rb' = rb_free(rb)
    /\ audio_rb' = rb_free(audio_rb)
    /\ m_pc' = "dev_close"
    /\ UNCHANGED <<audio_enabled, stop_streaming, config_received, keep_running,
                 audio_thread_running, cfg_mutex, desired_config, psd_cfg,
                 hack_cfg, rb_cfg, current_hw_cfg, device, local_hack,
                 local_rb, local_psd, local_desired, audio_thread_created,
                 audio_ctx, safety_timeout, attempts, pair_running, l_pc,
                 temp_desired, rx_on, cb_pc, transfer, aw_pc, inbox, msgs,
                 results, tunes, closedSinceResult, cb_took, fault, stale,
                 hw_state, docs, ringVars, audioVars, fnVars>>

\* if (device) { hackrf_stop_rx; hackrf_close }; return 0
Main_dev_close ==
    /\ fault = "none"
    /\ m_pc = "dev_close"
    /\ device # "NULL" => cb_pc = "idle"
    /\ rx_on' = FALSE
    /\ m_pc' = "done"
    /\ UNCHANGED <<rb, audio_rb, audio_enabled, stop_streaming, config_received,
                 keep_running, audio_thread_running, cfg_mutex,
                 desired_config, psd_cfg, hack_cfg, rb_cfg, current_hw_cfg,
                 device, local_hack, local_rb, local_psd, local_desired,
                 audio_thread_created, audio_ctx, safety_timeout, attempts,
                 pair_running, l_pc, temp_desired, cb_pc, transfer, aw_pc,
                 inbox, msgs, results, tunes, closedSinceResult, cb_took,
                 fault, stale, hw_state, docs, ringVars, audioVars, fnVars>>

(***************************************************************************)
(* listener_thread (zmq_util.c) and on_command_received (rf.c)             *)
(***************************************************************************)

\* while (pair->running) fails
Listener_exit ==
    /\ fault = "none"
    /\ l_pc = "recv"
    /\ ~pair_running
    /\ l_pc' = "exited"
    /\ UNCHANGED <<rb, audio_rb, audio_enabled, stop_streaming, config_received,
                 keep_running, audio_thread_running, cfg_mutex,
                 desired_config, psd_cfg, hack_cfg, rb_cfg, current_hw_cfg,
                 device, m_pc, local_hack, local_rb, local_psd, local_desired,
                 audio_thread_created, audio_ctx, safety_timeout, attempts,
                 pair_running, temp_desired, rx_on, cb_pc, transfer, aw_pc,
                 inbox, msgs, results, tunes, closedSinceResult, cb_took,
                 fault, stale, hw_state, docs, ringVars, audioVars, fnVars>>

\* zmq_recv delivers a document; on_command_received parses it into
\* temp_desired and returns at once when parse_config_rf does not return 0.
\* PSD mode: audio_enabled = false; otherwise rb_reset(&audio_rb) if audio
\* was off
Listener_recv ==
    /\ fault = "none"
    /\ l_pc = "recv"
    /\ pair_running
    /\ inbox # <<>>
    /\ inbox' = Tail(inbox)
    /\ LET p == parse_config_rf(Head(inbox).payload) IN
           IF p.ret # 0
           THEN /\ temp_desired' = temp_desired
                /\ audio_enabled' = audio_enabled
                /\ audio_rb' = audio_rb
                /\ l_pc' = "recv"
           ELSE /\ temp_desired' = Tag(p.target, Head(inbox).id)
                /\ IF p.target.rf_mode = PSD_MODE
                   THEN /\ audio_enabled' = FALSE
                        /\ audio_rb' = audio_rb
                        /\ l_pc' = "pub1"
                   ELSE IF ~audio_enabled
                        THEN /\ audio_enabled' = audio_enabled
                             /\ audio_rb' = rb_reset(audio_rb)
                             /\ l_pc' = "audio_on"
                        ELSE /\ audio_enabled' = TRUE
                             /\ audio_rb' = audio_rb
                             /\ l_pc' = "pub1"
    /\ UNCHANGED <<rb, stop_streaming, config_received, keep_running,
                 audio_thread_running, cfg_mutex, desired_config, psd_cfg,
                 hack_cfg, rb_cfg, current_hw_cfg, device, m_pc, local_hack,
                 local_rb, local_psd, local_desired, audio_thread_created,
                 audio_ctx, safety_timeout, attempts, pair_running, rx_on,
                 cb_pc, transfer, aw_pc, msgs, results, tunes,
                 closedSinceResult, cb_took, fault, stale, hw_state, docs,
                 ringVars, audioVars, fnVars>>

\* atomic_store(&audio_enabled, true) after the reset
Listener_audio_on ==
    /\ fault = "none"
    /\ l_pc = "audio_on"
    /\ audio_enabled' = TRUE
    /\ l_pc' = "pub1"
    /\ UNCHANGED <<rb, audio_rb, stop_streaming, config_received, keep_running,
                 audio_thread_running, cfg_mutex, desired_config, psd_cfg,
                 hack_cfg, rb_cfg, current_hw_cfg, device, m_pc, local_hack,
                 local_rb, local_psd, local_desired, audio_thread_created,
                 audio_ctx, safety_timeout, attempts, pair_running,
                 temp_desired, rx_on, cb_pc, transfer, aw_pc, inbox, msgs,
                 results, tunes, closedSinceResult, cb_took, fault, stale,
                 hw_state, docs, ringVars, audioVars, fnVars>>

\* find_params_psd; pthread_mutex_lock(&cfg_mutex); desired_config, hack_cfg
Listener_pub1 ==
    /\ fault = "none"
    /\ l_pc = "pub1"
    /\ MutexAvailable(cfg_mutex)
    /\ cfg_mutex' = "listener"
    /\ desired_config' = temp_desired
    /\ hack_cfg' = Tag(find_params_psd(temp_desired).hack, temp_desired.msg)
    /\ l_pc' = "pub2"
    /\ UNCHANGED <<rb, audio_rb, audio_enabled, stop_streaming, config_received,
                 keep_running, audio_thread_running, psd_cfg, rb_cfg,
                 current_hw_cfg, device, m_pc, local_hack, local_rb,
                 local_psd, local_desired, audio_thread_created, audio_ctx,
                 safety_timeout, attempts, pair_running, temp_desired, rx_on,
                 cb_pc, transfer, aw_pc, inbox, msgs, results, tunes,
                 closedSinceResult, cb_took, fault, stale, hw_state, docs,
                 ringVars, audioVars, fnVars>>

\* psd_cfg, rb_cfg; config_received = true; pthread_mutex_unlock(&cfg_mutex)
Listener_pub2 ==
    /\ fault = "none"
    /\ l_pc = "pub2"
    /\ psd_cfg' = Tag(find_params_psd(temp_desired).psd, temp_desired.msg)
    /\ rb_cfg' = Tag(find_params_psd(temp_desired).rb, temp_desired.msg)
    /\ config_received' = TRUE
    /\ cfg_mutex' = "none"
    /\ l_pc' = "recv"
    /\ UNCHANGED <<rb, audio_rb, audio_enabled, stop_streaming, keep_running,
                 audio_thread_running, desired_config, hack_cfg,
                 current_hw_cfg, device, m_pc, local_hack, local_rb,
                 local_psd, local_desired, audio_thread_created, audio_ctx,
                 safety_timeout, attempts, pair_running, temp_desired, rx_on,
                 cb_pc, transfer, aw_pc, inbox, msgs, results, tunes,
                 closedSinceResult, cb_took, fault, stale, hw_state, docs,
                 ringVars, audioVars, fnVars>>

(***************************************************************************)
(* rx_callback, run by the RF driver's thread while it streams.  The test   *)
(* of stop_streaming is taken together with the write to the main ring:    *)
(* main only sets the flag while the callback runs, and then waits for it. *)
(***************************************************************************)

\* the driver delivers a transfer: if (stop_streaming) return 0;
\* if (transfer->valid_length > 0) rb_write(&rb, buffer, valid_length) ...
\* (the driver stops delivering once a cursor would pass MaxCursor)
Cb_write_main ==
    /\ fault = "none"
    /\ cb_pc = "idle"
    /\ rx_on
    /\ \E t \in Transfers :
           /\ HeadAfter(rb, Len(t)) <= MaxCursor
           /\ HeadAfter(audio_rb, Len(t)) <= MaxCursor
           /\ IF stop_streaming \/ Len(t) = 0
              THEN /\ UNCHANGED <<fault, rb, transfer, cb_took, cb_pc>>
              ELSE IF NullArena(rb)
                   THEN /\ fault' = "SIGSEGV"
                        /\ UNCHANGED <<rb, transfer, cb_took, cb_pc>>
                   ELSE /\ fault' = fault
                        /\ rb' = rb_write(rb, t, Len(t)).rb
                        /\ transfer' = t
                        /\ cb_took' = rb_write(rb, t, Len(t)).ret
                        /\ cb_pc' = "audio"
    /\ UNCHANGED <<audio_rb, audio_enabled, stop_streaming, config_received,
                 keep_running, audio_thread_running, cfg_mutex,
                 desired_config, psd_cfg, hack_cfg, rb_cfg, current_hw_cfg,
                 device, m_pc, local_hack, local_rb, local_psd, local_desired,
                 audio_thread_created, audio_ctx, safety_timeout, attempts,
                 pair_running, l_pc, temp_desired, rx_on, aw_pc, inbox, msgs,
                 results, tunes, closedSinceResult, stale, hw_state, docs,
                 ringVars, audioVars, fnVars>>

\* if (atomic_load(&audio_enabled)) rb_write(&audio_rb, ...); return 0
Cb_audio ==
    /\ fault = "none"
    /\ cb_pc = "audio"
    /\ IF audio_enabled /\ NullArena(audio_rb)
       THEN /\ fault' = "SIGSEGV"
            /\ audio_rb' = audio_rb
            /\ transfer' = transfer
            /\ cb_took' = cb_took
            /\ cb_pc' = cb_pc
       ELSE /\ fault' = fault
            /\ audio_rb' = audio_branch(audio_rb, audio_enabled, transfer, Len(transfer))
            /\ transfer' = <<>>
            /\ cb_took' = 0
            /\ cb_pc' = "idle"
    /\ UNCHANGED <<rb, audio_enabled, stop_streaming, config_received,
                 keep_running, audio_thread_running, cfg_mutex,
                 desired_config, psd_cfg, hack_cfg, rb_cfg, current_hw_cfg,
                 device, m_pc, local_hack, local_rb, local_psd, local_desired,
                 audio_thread_created, audio_ctx, safety_timeout, attempts,
                 pair_running, l_pc, temp_desired, rx_on, aw_pc, inbox, msgs,
                 results, tunes, closedSinceResult, stale, hw_state, docs,
                 ringVars, audioVars, fnVars>>

(***************************************************************************)
(* audio_thread_fn: the audio worker as the consumer of the audio ring     *)
(***************************************************************************)

\* audio_thread_running = true
Aw_start ==
    /\ fault = "none"
    /\ aw_pc = "start"
    /\ audio_thread_running' = TRUE
    /\ aw_pc' = "loop"
    /\ UNCHANGED <<rb, audio_rb, audio_enabled, stop_streaming, config_received,
                 keep_running, cfg_mutex, desired_config, psd_cfg, hack_cfg,
                 rb_cfg, current_hw_cfg, device, m_pc, local_hack, local_rb,
                 local_psd, local_desired, audio_thread_created, audio_ctx,
                 safety_timeout, attempts, pair_running, l_pc, temp_desired,
                 rx_on, cb_pc, transfer, inbox, msgs, results, tunes,
                 closedSinceResult, cb_took, fault, stale, hw_state, docs,
                 ringVars, audioVars, fnVars>>

\* while (audio_thread_running) {
\* if (rb_available(&audio_rb) < AUDIO_CHUNK_SAMPLES * 2) { msleep; continue; }
Aw_wait ==
    /\ fault = "none"
    /\ aw_pc = "loop"
    /\ aw_pc' = IF ~audio_thread_running THEN "exited"
                ELSE IF rb_available(audio_rb) < AudioChunkBytes THEN "loop"
                ELSE "read"
    /\ UNCHANGED <<rb, audio_rb, audio_enabled, stop_streaming, config_received,
                 keep_running, audio_thread_running, cfg_mutex,
                 desired_config, psd_cfg, hack_cfg, rb_cfg, current_hw_cfg,
                 device, m_pc, local_hack, local_rb, local_psd, local_desired,
                 audio_thread_created, audio_ctx, safety_timeout, attempts,
                 pair_running, l_pc, temp_desired, rx_on, cb_pc, transfer,
                 inbox, msgs, results, tunes, closedSinceResult, cb_took,
                 fault, stale, hw_state, docs, ringVars, audioVars, fnVars>>

\* rb_read(&audio_rb, raw_iq_chunk, AUDIO_CHUNK_SAMPLES * 2), the
\* demodulation and the frames sent; back to the loop test
Aw_read ==
    /\ fault = "none"
    /\ aw_pc = "read"
    /\ audio_rb' = rb_read(audio_rb, AudioChunkBytes).rb
    /\ aw_pc' = "loop"
    /\ UNCHANGED <<rb, audio_enabled, stop_streaming, config_received,
                 keep_running, audio_thread_running, cfg_mutex,
                 desired_config, psd_cfg, hack_cfg, rb_cfg, current_hw_cfg,
                 device, m_pc, local_hack, local_rb, local_psd, local_desired,
                 audio_thread_created, audio_ctx, safety_timeout, attempts,
                 pair_running, l_pc, temp_desired, rx_on, cb_pc, transfer,
                 inbox, msgs, results, tunes, closedSinceResult, cb_took,
                 fault, stale, hw_state, docs, ringVars, audioVars, fnVars>>

MainNext ==
    \/ Main_zpair_start \/ Main_hackrf_init \/ Main_rb_init \/ Main_audio_rb_init
    \/ Main_idle \/ Main_idle_close \/ Main_snap1 \/ Main_snap2
    \/ Main_tune \/ Main_tune2 \/ Main_start \/ Main_acq \/ Main_process
    \/ Main_rec_enter \/ Main_rec_stop \/ Main_rec_try
    \/ Main_cleanup \/ Main_join_audio \/ Main_join_listener \/ Main_dev_close

ListenerNext ==
    \/ Listener_exit \/ Listener_recv \/ Listener_audio_on
    \/ Listener_pub1 \/ Listener_pub2

CbNext == Cb_write_main \/ Cb_audio

AwNext == Aw_start \/ Aw_wait \/ Aw_read

Next == Ctl_send \/ Sigint \/ MainNext \/ ListenerNext \/ CbNext \/ AwNext

Spec == Init /\ [][Next]_vars

(***************************************************************************)
(* SpecCycle: the program after start-up, idle, with one control message   *)
(* of any of the three modes waiting in the inbox; the listener, the       *)
(* orchestrator, the RX callback and the audio worker then run freely.     *)
(***************************************************************************)
P_am == Doc(<<"am">>, <<98>>, <<1>>, <<16>>, <<20>>)

CyclePayloads == {P_fm, P_am, P_psd100}

CycleInit ==
    /\ rb = rb_init(MainRingSize)
    /\ AudioVarsZero
    /\ FnVarsZero
    /\ wlog = <<>>
    /\ rlog = <<>>
    /\ sumW = 0
    /\ sumR = 0
    /\ last = [op |-> "init", len |-> 0, data |-> <<>>, ret |-> 0, out |-> <<>>,
               pre |-> ZeroRing]
    /\ audio_rb = rb_init(AUDIO_BUFFER_SIZE)
    /\ audio_enabled = FALSE
    /\ stop_streaming = TRUE
    /\ config_received = FALSE
    /\ keep_running = TRUE
    /\ audio_thread_running = FALSE
    /\ cfg_mutex = "none"
    /\ desired_config = ZeroDesired
    /\ psd_cfg = ZeroPsd
    /\ hack_cfg = ZeroHack
    /\ rb_cfg = ZeroRbCfg
    /\ current_hw_cfg = ZeroHack
    /\ device = "NULL"
    /\ m_pc = "idle"
    /\ local_hack = ZeroHack
    /\ local_rb = ZeroRbCfg
    /\ local_psd = ZeroPsd
    /\ local_desired = ZeroDesired
    /\ audio_thread_created = FALSE
    /\ audio_ctx = [current_mode |-> FM_MODE, current_fs_hz |-> 2]
    /\ safety_timeout = 0
    /\ attempts = 0
    /\ pair_running = TRUE
    /\ l_pc = "recv"
    /\ temp_desired = ZeroDesired
    /\ rx_on = FALSE
    /\ cb_pc = "idle"
    /\ transfer = <<>>
    /\ aw_pc = "none"
    /\ \E p \in CyclePayloads :
           /\ inbox = <<[id |-> 1, payload |-> p]>>
           /\ msgs = <<[payload |-> p, afterResult |-> FALSE]>>
    /\ results = <<>>
    /\ tunes = 0
    /\ closedSinceResult = FALSE
    /\ cb_took = 0
    /\ fault = "none"
    /\ stale = 0
    /\ hw_state = "fresh"
    /\ docs = <<>>

CycleNext ==
    \/ Ctl_send
    \/ Main_idle \/ Main_idle_close \/ Main_snap1 \/ Main_snap2
    \/ Main_tune \/ Main_tune2 \/ Main_start \/ Main_acq \/ Main_process
    \/ Main_rec_enter \/ Main_rec_stop \/ Main_rec_try
    \/ Listener_recv \/ Listener_audio_on \/ Listener_pub1 \/ Listener_pub2
    \/ Cb_write_main \/ Cb_audio
    \/ Aw_start \/ Aw_wait \/ Aw_read

SpecCycle == CycleInit /\ [][CycleNext]_vars

(***************************************************************************)
(* chan_filter.c and fftshift of psd.c                                     *)
(***************************************************************************)

\* chan_filter_validate_cfg_abs; cfg is const.  The comparisons with
\* fc -/+ 0.5 * fs are made on the doubled values.
chan_filter_validate_cfg_abs(cfg, fc_hz, fs_hz) ==
    IF fs_hz <= 0 THEN -2
    ELSE IF cfg.end_freq_hz <= cfg.start_freq_hz THEN -5
    ELSE IF \/ 2 * cfg.start_freq_hz < 2 * fc_hz - fs_hz
            \/ 2 * cfg.end_freq_hz > 2 * fc_hz + fs_hz
         THEN -6
         ELSE 0

\* chan_filter_apply_inplace_abs: the value returned and the pass band of the
\* mask the signal was multiplied by (none when the function returns early).
\* built: build_mask_and_plans obtained its buffers and plans.
chan_filter_apply_inplace_abs(n_signal, cfg, fc_hz, fs_hz, built) ==
    IF n_signal < 2 THEN [ret |-> -1, passband |-> <<>>]
    ELSE IF chan_filter_validate_cfg_abs(cfg, fc_hz, fs_hz) < 0
         THEN [ret |-> -4, passband |-> <<>>]
         ELSE IF ~built THEN [ret |-> -5, passband |-> <<>>]
              ELSE [ret |-> 0,
                    passband |-> <<cfg.start_freq_hz, cfg.end_freq_hz>>]

\* variant of fftshift without the last memcpy (temp is never copied back)
fftshift_NoCopyBack(data, temp_ok, forward) ==
    LET n == Len(data)
        half == n \div 2
        moved == [j \in 1..(n - half) |->
                     IF ~forward /\ j + half <= n - half
                     THEN data[j + 2 * half]
                     ELSE data[j + half]]
    IN  IF ~temp_ok THEN data ELSE moved \o SubSeq(data, n - half + 1, n)

\* fftshift(data, n), n = Len(data).  temp_ok: malloc(half) gave a buffer
\* (else the function returns with data untouched).  With n odd the second
\* memcpy copies n - half elements between regions that share data[half],
\* which C leaves undefined: forward is the copy in ascending order (the
\* result of memmove), the other outcome is the copy in descending order.
fftshift(data, temp_ok, forward) ==
    LET n == Len(data)
        half == n \div 2
        moved == [j \in 1..(n - half) |->
                     IF ~forward /\ j + half <= n - half
                     THEN data[j + 2 * half]
                     ELSE data[j + half]]
    IN  IF ~temp_ok THEN data ELSE moved \o SubSeq(data, 1, half)

(***************************************************************************)
(* SpecFn: the functions that take a configuration or a buffer and give a  *)
(* result, each run on every input of a bounded set.                       *)
(***************************************************************************)
\* control documents, in Hz
FnDocs ==
    [json : {TRUE},
     rf_mode : {Absent, <<"FM">>, <<"am">>, <<"wideband">>},
     center_freq_hz : {Absent, <<98000000>>},
     sample_rate_hz : {Absent, <<48000>>, <<200000>>},
     lna_gain : {<<16>>}, vga_gain : {<<20>>},
     antenna_amp : {Absent, <<FALSE>>}, antenna_port : {Absent, <<2>>},
     ppm_error : {Absent},
     rbw_hz : {Absent, <<10>>, <<1000>>},
     overlap : {Absent, <<-2>>, <<2>>, <<4>>, <<6>>},
     window : {Absent, <<"Hann">>, <<"FlatTop">>, <<"boxcar">>}]

\* control documents whose tuning fields are zero, absent or set
FnZeroDocs ==
    {Doc(<<"FM">>, cf, sr, lna, vga) :
        cf \in {Absent, <<0>>, <<98000000>>},
        sr \in {Absent, <<0>>, <<48000>>},
        lna \in {Absent, <<0>>, <<16>>},
        vga \in {Absent, <<0>>, <<20>>}}

FnFilters ==
    [cfg : [start_freq_hz : {98500000, 99000000, 99500000, 100500000},
            end_freq_hz : {99500000, 100500000, 101000000, 101500000}],
     fc_hz : {100000000}, fs_hz : {0, 2000000}, n_signal : {1, 4}]

MaxShiftLen == 4

ShiftValues == 0..2

RECURSIVE SeqsUpTo(_, _)
SeqsUpTo(S, n) ==
    IF n = 0 THEN {<<>>}
    ELSE SeqsUpTo(S, n - 1) \cup
         {Append(q, x) : q \in {r \in SeqsUpTo(S, n - 1) : Len(r) = n - 1}, x \in S}

\* main, step 5 (processing), statement by statement.  c: [pc, ok, heap,
\* read, published, stamped]; ok says which of the five allocations succeed,
\* heap is the set of per-cycle buffers allocated and not yet freed.
CycleBuffers == {"linear_buffer", "sig", "signal_iq", "freq", "psd"}

\* variant of the processing step that keeps the IQ signal when the
\* allocation of freq or psd has failed
processing_step_KeepsSignal(c) ==
    CASE c.pc = "malloc_linear" ->
             IF c.ok.linear_buffer
             THEN [c EXCEPT !.heap = @ \cup {"linear_buffer"}, !.pc = "rb_read"]
             ELSE [c EXCEPT !.pc = "stamp"]
      [] c.pc = "rb_read" -> [c EXCEPT !.read = TRUE, !.pc = "malloc_sig"]
      [] c.pc = "malloc_sig" ->
             IF c.ok.sig
             THEN [c EXCEPT !.heap = @ \cup {"sig"}, !.pc = "calloc_iq"]
             ELSE [c EXCEPT !.pc = "free_linear"]
      [] c.pc = "calloc_iq" ->
             IF c.ok.signal_iq
             THEN [c EXCEPT !.heap = @ \cup {"signal_iq"}, !.pc = "malloc_psd"]
             ELSE [c EXCEPT !.heap = @ \ {"sig"}, !.pc = "free_linear"]
      [] c.pc = "malloc_psd" ->
             [c EXCEPT !.heap = @ \cup {b \in {"freq", "psd"} : c.ok[b]},
                       !.pc = IF c.ok.freq /\ c.ok.psd THEN "publish"
                              ELSE "free_arrays"]
      [] c.pc = "publish" -> [c EXCEPT !.published = TRUE, !.pc = "free_arrays"]
      [] c.pc = "free_arrays" ->
             [c EXCEPT !.heap = @ \ {"freq", "psd"},
                       !.pc = IF c.published THEN "free_signal_iq" ELSE "free_linear"]
      [] c.pc = "free_signal_iq" ->
             [c EXCEPT !.heap = @ \ {"sig", "signal_iq"}, !.pc = "free_linear"]
      [] c.pc = "free_linear" ->
             [c EXCEPT !.heap = @ \ {"linear_buffer"}, !.pc = "stamp"]
      [] c.pc = "stamp" -> [c EXCEPT !.stamped = TRUE, !.pc = "idle"]

processing_step(c) ==
    CASE c.pc = "malloc_linear" ->
             \* int8_t* linear_buffer = malloc(local_rb.total_bytes)
             IF c.ok.linear_buffer
             THEN [c EXCEPT !.heap = @ \cup {"linear_buffer"}, !.pc = "rb_read"]
             ELSE [c EXCEPT !.pc = "stamp"]
      [] c.pc = "rb_read" -> [c EXCEPT !.read = TRUE, !.pc = "malloc_sig"]
         \* load_iq_from_buffer: malloc(sizeof(signal_iq_t))
      [] c.pc = "malloc_sig" ->
             IF c.ok.sig
             THEN [c EXCEPT !.heap = @ \cup {"sig"}, !.pc = "calloc_iq"]
             ELSE [c EXCEPT !.pc = "free_linear"]
         \* load_iq_from_buffer: calloc(n_samples, ...), free(signal_data) if NULL
      [] c.pc = "calloc_iq" ->
             IF c.ok.signal_iq
             THEN [c EXCEPT !.heap = @ \cup {"signal_iq"}, !.pc = "malloc_psd"]
             ELSE [c EXCEPT !.heap = @ \ {"sig"}, !.pc = "free_linear"]
         \* freq = malloc(...); psd = malloc(...); if (freq && psd)
      [] c.pc = "malloc_psd" ->
             [c EXCEPT !.heap = @ \cup {b \in {"freq", "psd"} : c.ok[b]},
                       !.pc = IF c.ok.freq /\ c.ok.psd THEN "publish"
                              ELSE "free_arrays"]
         \* the filter, the PSD and publish_results
      [] c.pc = "publish" -> [c EXCEPT !.published = TRUE, !.pc = "free_arrays"]
         \* if (freq) free(freq); if (psd) free(psd)
      [] c.pc = "free_arrays" ->
             [c EXCEPT !.heap = @ \ {"freq", "psd"}, !.pc = "free_signal_iq"]
      [] c.pc = "free_signal_iq" ->
             [c EXCEPT !.heap = @ \ {"sig", "signal_iq"}, !.pc = "free_linear"]
      [] c.pc = "free_linear" ->
             [c EXCEPT !.heap = @ \ {"linear_buffer"}, !.pc = "stamp"]
         \* clock_gettime(CLOCK_MONOTONIC, &last_activity_time); back to the loop test
      [] c.pc = "stamp" -> [c EXCEPT !.stamped = TRUE, !.pc = "idle"]

(***************************************************************************)
(* listener_thread of zmq_util.c: one turn of its loop                     *)
(***************************************************************************)
\* #define ZBUF_SIZE 65536
ZBUF_SIZE == 65536

\* zmq_recv(socket, buf, len, 0) with a message of msg_len bytes waiting, or
\* none (msg_len = -1, the receive times out): at most len bytes are copied
\* and the size of the message is returned, also when it was truncated
zmq_recv(msg_len, len) ==
    IF msg_len < 0 THEN [ret |-> -1, copied |-> 0]
    ELSE [ret |-> msg_len, copied |-> IF msg_len < len THEN msg_len ELSE len]

\* int len = zmq_recv(..., ZBUF_SIZE - 1, 0);
\* if (len >= 0) { pair->buffer[len] = '\0'; callback(pair->buffer); }
\* nul_index is the index written, -1 when nothing is written
listener_thread(msg_len) ==
    LET r == zmq_recv(msg_len, ZBUF_SIZE - 1)
    IN  [len |-> r.ret, copied |-> r.copied,
         nul_index |-> IF r.ret >= 0 THEN r.ret ELSE -1,
         callback |-> r.ret >= 0]

\* sizes of the message waiting on the socket; -1: none within RCVTIMEO
MsgLens == {-1, 0, 1, 2, ZBUF_SIZE - 2, ZBUF_SIZE - 1, ZBUF_SIZE, ZBUF_SIZE + 1,
            2 * ZBUF_SIZE}

FnInit ==
    /\ rb = ZeroRing
    /\ SysInit
    /\ AudioVarsZero
    /\ wlog = <<>>
    /\ rlog = <<>>
    /\ sumW = 0
    /\ sumR = 0
    /\ last = [op |-> "init", len |-> 0, data |-> <<>>, ret |-> 0, out |-> <<>>,
               pre |-> ZeroRing]
    /\ fn_out = NoCall
    /\ \/ \E d \in FnDocs \cup FnZeroDocs :
              fn_in = [fn |-> "on_command_received", payload |-> d]
       \/ \E f \in FnFilters : fn_in = [fn |-> "chan_filter", arg |-> f]
       \/ \E q \in SeqsUpTo(ShiftValues, MaxShiftLen) \ {<<>>} :
              fn_in = [fn |-> "fftshift", data |-> q]
       \/ \E ok \in [CycleBuffers -> BOOLEAN] : fn_in = [fn |-> "processing", ok |-> ok]
       \/ \E n \in MsgLens : fn_in = [fn |-> "listener_thread", msg_len |-> n]

\* on_command_received: parse_config_rf(payload, &temp_desired)
Fn_parse_config_rf ==
    /\ fn_in.fn = "on_command_received"
    /\ fn_out = NoCall
    /\ fn_out' = [fn |-> "parse_config_rf", ret |-> parse_config_rf(fn_in.payload).ret,
                  target |-> parse_config_rf(fn_in.payload).target]
    /\ UNCHANGED <<rb, sysVars, ringVars, audioVars, fn_in>>

\* on_command_received, the parse having returned 0:
\* find_params_psd(temp_desired, &hack_cfg, &psd_cfg, &rb_cfg)
Fn_find_params_psd ==
    /\ fn_out.fn = "parse_config_rf"
    /\ fn_out.ret = 0
    /\ fn_out' = [fn |-> "find_params_psd", desired |-> fn_out.target,
                  psd |-> find_params_psd(fn_out.target).psd,
                  hack |-> find_params_psd(fn_out.target).hack]
    /\ UNCHANGED <<rb, sysVars, ringVars, audioVars, fn_in>>

\* main, step 5: chan_filter_apply_inplace_abs(sig, &filter_cfg, fc, fs)
Fn_chan_filter ==
    /\ fn_in.fn = "chan_filter"
    /\ fn_out = NoCall
    /\ \E built \in BOOLEAN :
           fn_out' = [fn |-> "chan_filter", cfg |-> fn_in.arg.cfg,
                      res |-> chan_filter_apply_inplace_abs(
                                  fn_in.arg.n_signal, fn_in.arg.cfg,
                                  fn_in.arg.fc_hz, fn_in.arg.fs_hz, built)]
    /\ UNCHANGED <<rb, sysVars, ringVars, audioVars, fn_in>>

\* fftshift on the buffer, a first and a second time
Fn_fftshift ==
    /\ fn_in.fn = "fftshift"
    /\ \E temp_ok \in BOOLEAN, forward \in BOOLEAN :
           \/ /\ fn_out = NoCall
              /\ fn_out' = [fn |-> "fftshift", calls |-> 1, allocated |-> temp_ok,
                            data |-> fftshift(fn_in.data, temp_ok, forward)]
           \/ /\ fn_out.fn = "fftshift"
              /\ fn_out.calls = 1
              /\ fn_out' = [fn |-> "fftshift", calls |-> 2,
                            allocated |-> fn_out.allocated /\ temp_ok,
                            data |-> fftshift(fn_out.data, temp_ok, forward)]
    /\ UNCHANGED <<rb, sysVars, ringVars, audioVars, fn_in>>

\* main, step 5: one statement of the processing block
Fn_processing ==
    /\ fn_in.fn = "processing"
    /\ \/ /\ fn_out = NoCall
          /\ fn_out' = processing_step([fn |-> "processing", pc |-> "malloc_linear",
                                        ok |-> fn_in.ok, heap |-> {}, read |-> FALSE,
                                        published |-> FALSE, stamped |-> FALSE])
       \/ /\ fn_out.fn = "processing"
          /\ fn_out.pc # "idle"
          /\ fn_out' = processing_step(fn_out)
    /\ UNCHANGED <<rb, sysVars, ringVars, audioVars, fn_in>>

\* listener_thread: one turn of while (pair->running)
Fn_listener_thread ==
    /\ fn_in.fn = "listener_thread"
    /\ fn_out = NoCall
    /\ fn_out' = [fn |-> "listener_thread", res |-> listener_thread(fn_in.msg_len)]
    /\ UNCHANGED <<rb, sysVars, ringVars, audioVars, fn_in>>

FnNext ==
    \/ Fn_parse_config_rf \/ Fn_find_params_psd \/ Fn_chan_filter \/ Fn_fftshift
    \/ Fn_processing \/ Fn_listener_thread

SpecFn == FnInit /\ [][FnNext]_vars

(***************************************************************************)
(* SpecRing: one ring, any interleaving of its four operations.            *)
(***************************************************************************)
NoOp == [op |-> "init", len |-> 0, data |-> <<>>, ret |-> 0, out |-> <<>>,
         pre |-> rb_init(RingSize)]

RingInit ==
    /\ rb = rb_init(RingSize)
    /\ SysInit
    /\ AudioVarsZero
    /\ FnVarsZero
    /\ wlog = <<>>
    /\ rlog = <<>>
    /\ sumW = 0
    /\ sumR = 0
    /\ last = NoOp

\* a producer calls rb_write(&rb, data, len)
RingWrite ==
    \E data \in Fragments(MaxLen) :
        LET w == rb_write(rb, data, Len(data)) IN
        /\ rb.head + Len(data) <= MaxHead
        /\ rb' = w.rb
        /\ wlog' = wlog \o SubSeq(data, 1, w.ret)
        /\ sumW' = sumW + w.ret
        /\ last' = [op |-> "write", len |-> Len(data), data |-> data,
                    ret |-> w.ret, out |-> <<>>, pre |-> rb]
        /\ UNCHANGED <<rlog, sumR, sysVars, audioVars, fnVars>>

\* a consumer calls rb_read(&rb, dst, len)
RingRead ==
    \E len \in 0..MaxLen :
        LET r == rb_read(rb, len) IN
        /\ rb' = r.rb
        /\ rlog' = rlog \o r.data
        /\ sumR' = sumR + r.ret
        /\ last' = [op |-> "read", len |-> len, data |-> <<>>,
                    ret |-> r.ret, out |-> r.data, pre |-> rb]
        /\ UNCHANGED <<wlog, sumW, sysVars, audioVars, fnVars>>

\* a consumer calls rb_available(&rb)
RingAvailable ==
    /\ last' = [op |-> "avail", len |-> 0, data |-> <<>>,
                ret |-> rb_available(rb), out |-> <<>>, pre |-> rb]
    /\ UNCHANGED <<rb, wlog, rlog, sumW, sumR, sysVars, audioVars, fnVars>>

\* the control callback or the orchestrator calls rb_reset(&rb)
RingReset ==
    /\ rb' = rb_reset(rb)
    /\ wlog' = <<>>
    /\ rlog' = <<>>
    /\ sumW' = 0
    /\ sumR' = 0
    /\ last' = [op |-> "reset", len |-> 0, data |-> <<>>, ret |-> 0,
                out |-> <<>>, pre |-> rb]
    /\ UNCHANGED <<sysVars, audioVars, fnVars>>

RingNext == RingWrite \/ RingRead \/ RingAvailable \/ RingReset

SpecRing == RingInit /\ [][RingNext]_vars

(***************************************************************************)
(* SpecAudio: audio_thread_fn in full, from the creation of the thread in   *)
(* the first cycle of an FM configuration.  The rest of the program is     *)
(* present as the RF callback feeding the audio ring, the reset of the     *)
(* audio ring by a retune, and the clearing of audio_thread_running.       *)
(***************************************************************************)
\* what this specification leaves alone
frozenVars == <<rb, audio_enabled, stop_streaming, config_received, keep_running,
                cfg_mutex, desired_config, psd_cfg, hack_cfg, rb_cfg,
                current_hw_cfg, device, m_pc, local_hack, local_rb, local_psd,
                local_desired, audio_thread_created, audio_ctx, safety_timeout,
                attempts, pair_running, l_pc, temp_desired, rx_on, cb_pc,
                transfer, inbox, msgs, results, tunes, closedSinceResult,
                cb_took, fault, stale, hw_state, docs, ringVars, fnVars>>

\* the program right after pthread_create(&audio_thread, ...) and
\* hackrf_start_rx in the cycle of a first message P_fm
AudioSysInit ==
    LET d == Tag(parse_config_rf(P_fm).target, 1)
        f == find_params_psd(d)
    IN  /\ rb = rb_init(MainRingSize)
        /\ audio_rb = rb_init(AUDIO_BUFFER_SIZE)
        /\ audio_enabled = TRUE
        /\ stop_streaming = FALSE
        /\ config_received = FALSE
        /\ keep_running = TRUE
        /\ audio_thread_running = FALSE
        /\ cfg_mutex = "none"
        /\ desired_config = d
        /\ psd_cfg = Tag(f.psd, 1)
        /\ hack_cfg = Tag(f.hack, 1)
        /\ rb_cfg = Tag(f.rb, 1)
        /\ current_hw_cfg = Tag(f.hack, 0)
        /\ device = "dev"
        /\ m_pc = "acq"
        /\ local_hack = Tag(f.hack, 1)
        /\ local_rb = Tag(f.rb, 1)
        /\ local_psd = Tag(f.psd, 1)
        /\ local_desired = d
        /\ audio_thread_created = TRUE
        /\ audio_ctx = [current_mode |-> FM_MODE, current_fs_hz |-> f.hack.sample_rate]
        /\ safety_timeout = PollBudget
        /\ attempts = 0
        /\ pair_running = TRUE
        /\ l_pc = "recv"
        /\ temp_desired = d
        /\ rx_on = TRUE
        /\ cb_pc = "idle"
        /\ transfer = <<>>
        /\ aw_pc = "start"
        /\ inbox = <<>>
        /\ msgs = <<[payload |-> P_fm, afterResult |-> FALSE]>>
        /\ results = <<>>
        /\ tunes = 1
        /\ closedSinceResult = FALSE
        /\ cb_took = 0
        /\ fault = "none"
        /\ stale = 0
        /\ hw_state = "applied"
        /\ docs = <<>>

\* raw_iq_chunk comes from malloc: its bytes are arbitrary until the first
\* rb_read fills them
AudioInit ==
    /\ AudioSysInit
    /\ FnVarsZero
    /\ tx = NullTx
    /\ raw_iq_chunk \in [1..AudioChunkBytes -> Byte]
    /\ pcm_out = <<>>
    /\ idx = 0
    /\ pcm_accum = <<>>
    /\ left = 0
    /\ ens_from = "top"
    /\ conns = 0
    /\ wire = NoFrame
    /\ enc_in = NoEnc
    /\ produced = 0
    /\ epoch = 0
    /\ wlog = <<>>
    /\ rlog = <<>>
    /\ sumW = 0
    /\ sumR = 0
    /\ last = NoOp

\* where ensure_tx_with_retry returns to
ReturnPc(from) == IF from = "top" THEN "wait" ELSE "accum"

\* while (audio_thread_running) { ensure_tx_with_retry(...) ... }
\* if (tx) opus_tx_destroy(tx)
Audio_loop ==
    /\ aw_pc = "loop"
    /\ IF ~audio_thread_running
       THEN /\ tx' = NullTx
            /\ aw_pc' = "exited"
            /\ ens_from' = ens_from
       ELSE /\ tx' = tx
            /\ aw_pc' = "ensure"
            /\ ens_from' = "top"
    /\ UNCHANGED <<audio_rb, audio_thread_running, raw_iq_chunk, pcm_out, idx,
                   pcm_accum, left, conns, wire, enc_in, produced, epoch,
                   frozenVars>>

\* ensure_tx_with_retry: if (*ptx) return 0
Audio_ensure ==
    /\ aw_pc = "ensure"
    /\ IF ensure_has_tx(tx)
       THEN /\ aw_pc' = ReturnPc(ens_from)
            /\ ens_from' = "top"
       ELSE /\ aw_pc' = "ens_loop"
            /\ ens_from' = ens_from
    /\ UNCHANGED <<audio_rb, audio_thread_running, tx, raw_iq_chunk, pcm_out, idx,
                   pcm_accum, left, conns, wire, enc_in, produced, epoch,
                   frozenVars>>

\* ensure_tx_with_retry: while (running_flag && *running_flag) {
\* opus_tx_create; if (tx) { *ptx = tx; return 0; } sleep_cancelable_ms }
\* return -1, upon which the worker breaks out of its loop
Audio_ens_loop ==
    /\ aw_pc = "ens_loop"
    /\ IF ~audio_thread_running
       THEN /\ tx' = NullTx
            /\ aw_pc' = "exited"
            /\ UNCHANGED <<conns, left, ens_from>>
       ELSE \E ok \in BOOLEAN :
                IF ok /\ conns < MaxConns
                THEN /\ tx' = opus_tx_create(conns)
                     /\ conns' = conns + 1
                     /\ aw_pc' = ReturnPc(ens_from)
                     /\ ens_from' = "top"
                     /\ left' = left
                ELSE /\ left' = RECONNECT_DELAY_MS
                     /\ aw_pc' = "ens_sleep"
                     /\ UNCHANGED <<tx, conns, ens_from>>
    /\ UNCHANGED <<audio_rb, audio_thread_running, raw_iq_chunk, pcm_out, idx,
                   pcm_accum, wire, enc_in, produced, epoch, frozenVars>>

\* sleep_cancelable_ms: one turn of while (left > 0) { if (!*running_flag)
\* break; usleep(min(step, left)); left -= s; }, or the return
Audio_sleep ==
    /\ aw_pc \in {"ens_sleep", "fail_sleep"}
    /\ IF left > 0 /\ audio_thread_running
       THEN /\ left' = left - MIN(SleepStepMs, left)
            /\ aw_pc' = aw_pc
       ELSE /\ left' = 0
            /\ aw_pc' = IF aw_pc = "ens_sleep" THEN "ens_loop" ELSE "loop"
    /\ UNCHANGED <<audio_rb, audio_thread_running, tx, raw_iq_chunk, pcm_out, idx,
                   pcm_accum, ens_from, conns, wire, enc_in, produced, epoch,
                   frozenVars>>

\* if (rb_available(&audio_rb) < AUDIO_CHUNK_SAMPLES * 2) { msleep; continue; }
Audio_wait ==
    /\ aw_pc = "wait"
    /\ aw_pc' = IF rb_available(audio_rb) < AudioChunkBytes THEN "loop" ELSE "read"
    /\ UNCHANGED <<audio_rb, audio_thread_running, audioVars, frozenVars>>

\* rb_read(&audio_rb, raw_iq_chunk, ...), the IQ filter and the demodulator,
\* which returns samples_gen samples made from the chunk;
\* if (samples_gen <= 0) continue; else the second ensure_tx_with_retry
Audio_read ==
    /\ aw_pc = "read"
    /\ LET r == rb_read(audio_rb, AudioChunkBytes)
           chunk == [i \in 1..AudioChunkBytes |->
                        IF i <= r.ret THEN r.data[i] ELSE raw_iq_chunk[i]]
       IN  /\ audio_rb' = r.rb
           /\ raw_iq_chunk' = chunk
           /\ \E samples_gen \in 0..MaxGen :
                  /\ produced + samples_gen <= MaxSamples
                  /\ pcm_out' = [k \in 1..samples_gen |->
                                    [n |-> produced + k, e |-> ChunkEpoch(chunk)]]
                  /\ produced' = produced + samples_gen
                  /\ IF samples_gen = 0
                     THEN aw_pc' = "loop" /\ ens_from' = ens_from
                     ELSE aw_pc' = "ensure" /\ ens_from' = "mid"
    /\ idx' = 0
    /\ UNCHANGED <<audio_thread_running, tx, pcm_accum, left, conns, wire, enc_in,
                   epoch, frozenVars>>

\* one turn of while (idx < samples_gen): the memcpy into pcm_accum and, on
\* a full frame, opus_tx_send_frame: opus_encode, the header with
\* tx->seq++, send_all of the header and of the payload
Audio_accum ==
    /\ aw_pc = "accum"
    /\ IF idx >= Len(pcm_out)
       THEN /\ aw_pc' = "loop"
            /\ pcm_out' = <<>>
            /\ idx' = 0
            /\ UNCHANGED <<tx, pcm_accum, left, wire, enc_in>>
       ELSE LET take == accum_take(Len(pcm_out), idx, Len(pcm_accum))
                acc  == pcm_accum \o SubSeq(pcm_out, idx + 1, idx + take)
            IN  IF Len(acc) # FrameSamples
                THEN /\ pcm_accum' = acc
                     /\ idx' = idx + take
                     /\ UNCHANGED <<aw_pc, tx, pcm_out, left, wire, enc_in>>
                ELSE \E out \in {"ok", "enc_fail", "hdr_fail", "pay_fail"},
                        n \in EncodedSizes :
                         LET ret == IF out = "ok" THEN 0 ELSE -1
                             t   == IF out = "enc_fail" THEN tx
                                    ELSE [tx EXCEPT !.seq = tx.seq + 1]
                             a   == after_send(ret, t)
                             h   == OpusFrameHeader(tx.seq, AUDIO_FS, OpusChannels, n)
                         IN  /\ enc_in' = [conn |-> tx.conn, pcm |-> acc]
                             /\ wire' = CASE out = "ok" ->
                                               [conn |-> tx.conn, hdr |-> h, payload |-> n,
                                                complete |-> TRUE, pcm |-> acc]
                                          [] out = "pay_fail" ->
                                               [conn |-> tx.conn, hdr |-> h,
                                                payload |-> n - 1,
                                                complete |-> FALSE, pcm |-> acc]
                                          [] OTHER -> wire
                             /\ tx' = a.tx
                             /\ pcm_accum' = a.pcm_accum
                             /\ left' = a.left
                             /\ aw_pc' = a.pc
                             /\ idx' = IF a.pc = "accum" THEN idx + take ELSE 0
                             /\ pcm_out' = IF a.pc = "accum" THEN pcm_out ELSE <<>>
    /\ UNCHANGED <<audio_rb, audio_thread_running, raw_iq_chunk, ens_from, conns,
                   produced, epoch, frozenVars>>

\* rx_callback while audio is enabled: the transfer goes to the audio ring
\* (the driver stops once head would pass AudioMaxCursor)
Audio_cb ==
    /\ HeadAfter(audio_rb, AudioChunkBytes) <= AudioMaxCursor
    /\ audio_rb' = audio_branch(audio_rb, audio_enabled, TransferOf(epoch),
                                AudioChunkBytes)
    /\ UNCHANGED <<audio_thread_running, aw_pc, audioVars, frozenVars>>

\* main retunes for a new configuration: rb_reset(&audio_rb)
Audio_retune ==
    /\ epoch < MaxRetunes
    /\ epoch' = epoch + 1
    /\ audio_rb' = rb_reset(audio_rb)
    /\ UNCHANGED <<audio_thread_running, aw_pc, tx, raw_iq_chunk, pcm_out, idx,
                   pcm_accum, left, ens_from, conns, wire, enc_in, produced,
                   frozenVars>>

\* main's clean-up: audio_thread_running = false
Audio_stop ==
    /\ audio_thread_running
    /\ audio_thread_running' = FALSE
    /\ UNCHANGED <<audio_rb, aw_pc, audioVars, frozenVars>>

AudioNext ==
    \/ Aw_start \/ Audio_loop \/ Audio_ensure \/ Audio_ens_loop \/ Audio_sleep
    \/ Audio_wait \/ Audio_read \/ Audio_accum
    \/ Audio_cb \/ Audio_retune \/ Audio_stop

SpecAudio == AudioInit /\ [][AudioNext]_vars

(***************************************************************************)
(* Properties of the ring (checked under SpecRing).                        *)
(***************************************************************************)
\* C1: in every reachable state of a ring the cursors satisfy
\* 0 <= head - tail <= size.
C1_CursorBounds ==
    /\ 0 <= rb.head - rb.tail
    /\ rb.head - rb.tail <= rb.size

\* the ring is full after the cursors have gone more than once round the arena
C1_Witness ==
    /\ rb.head - rb.tail = rb.size
    /\ rb.tail > rb.size
    /\ last.op = "write"

\* C2: bytes leave the ring in FIFO order: what the reads have returned so
\* far is a prefix of what the writes have accepted, and the accepted bytes
\* not yet returned are exactly the unread bytes of the arena, in order
\* (none lost, duplicated, reordered or overwritten).
C2_Fifo ==
    /\ IsPrefix(rlog, wlog)
    /\ wlog = rlog \o Unread(rb)

\* a read that wrapped round the physical end of the arena, after a write
\* that wrapped too
C2_Witness ==
    /\ last.op = "read"
    /\ (last.pre.tail % rb.size) + last.ret > rb.size
    /\ last.pre.head > rb.size
    /\ \E i, j \in 1..Len(last.out) : last.out[i] # last.out[j]

\* C3: since creation or the latest reset, the total returned by rb_read is
\* the total returned by rb_write minus what rb_available returns now.
C3_Conservation == sumR = sumW - rb_available(rb)

C3_Witness ==
    /\ sumR > 0
    /\ rb_available(rb) > 0
    /\ sumW > rb.size

\* C4: rb_write accepts exactly min(len, size - (head - tail)) bytes, the
\* first ones of the fragment, advances head by that amount and returns it,
\* leaving tail and every other arena byte alone; with no free byte it
\* returns 0 and changes nothing.
C4_WriteAccepts ==
    last.op = "write" =>
        LET free == last.pre.size - (last.pre.head - last.pre.tail)
            n    == IF last.len < free THEN last.len ELSE free
        IN  /\ last.ret = n
            /\ rb.head = last.pre.head + n
            /\ rb.tail = last.pre.tail
            /\ \A k \in 1..n :
                   rb.buffer[(last.pre.head + k - 1) % rb.size] = last.data[k]
            /\ \A i \in 0..(rb.size - 1) :
                   (\A k \in 1..n : i # (last.pre.head + k - 1) % rb.size)
                       => rb.buffer[i] = last.pre.buffer[i]
            /\ (free = 0 => rb = last.pre /\ last.ret = 0)

\* a fragment of which only a part fitted
C4_Witness ==
    /\ last.op = "write"
    /\ 0 < last.ret
    /\ last.ret < last.len

\* C5 as stated: a write to a full ring replaces the oldest unread bytes, so
\* that the consumer then reads the newer data.
C5_Overwrites ==
    (last.op = "write" /\ last.len > 0
        /\ last.pre.head - last.pre.tail = last.pre.size)
    => Unread(rb) = Tail_n(Unread(last.pre) \o last.data, rb.size)

\* C5 amended: a write to a full ring returns at once with 0, the incoming
\* bytes are dropped and the unread bytes stay as they were, so that the
\* consumer then reads the older data.
C5_DropsNewest ==
    (last.op = "write" /\ last.len > 0
        /\ last.pre.head - last.pre.tail = last.pre.size)
    => /\ last.ret = 0
       /\ Unread(rb) = Unread(last.pre)
       /\ rb_read(rb, rb.size).data = Unread(last.pre)

\* a write to a full ring of bytes that differ from the oldest unread ones
C5_Witness ==
    /\ last.op = "write"
    /\ last.len > 0
    /\ last.pre.head - last.pre.tail = last.pre.size
    /\ last.data[1] # Unread(last.pre)[1]

\* C6: right after rb_reset, rb_available is 0, head = tail = 0 and every
\* arena byte is zero, whatever preceded the reset.
C6_ResetClears ==
    last.op = "reset" =>
        /\ rb_available(rb) = 0
        /\ rb.head = 0
        /\ rb.tail = 0
        /\ \A i \in 0..(rb.size - 1) : rb.buffer[i] = 0

\* a reset of a ring that held unread non-zero bytes and had been read from
C6_Witness ==
    /\ last.op = "reset"
    /\ last.pre.tail > 0
    /\ last.pre.head > last.pre.tail
    /\ \A i \in 0..(rb.size - 1) : last.pre.buffer[i] # 0

(***************************************************************************)
(* Properties of the threads (checked under Spec).                         *)
(***************************************************************************)
\* what a ring with the free space of r takes from buf: the bytes that fit
Taken(r, buf) == SubSeq(buf, 1, MIN(Len(buf), r.size - (r.head - r.tail)))

WellFormed(id) ==
    /\ id \in 1..Len(msgs)
    /\ msgs[id].payload.json
    /\ ~(NumberOr(msgs[id].payload.center_freq_hz, 0) = 0
         /\ NumberOr(msgs[id].payload.sample_rate_hz, 0) = 0)

\* the DesiredCfg_t that message id yields
DesiredOf(id) == Tag(parse_config_rf(msgs[id].payload).target, id)

\* C8: outside the copy itself, main's four local structs are either all
\* still zero or all derived from one and the same accepted message; and the
\* message a later snapshot shows is never older than the one before.
C8_SnapshotOneMessage ==
    /\ [](m_pc # "snap2" =>
            IF local_desired.msg = 0
            THEN /\ local_hack = ZeroHack
                 /\ local_rb = ZeroRbCfg
                 /\ local_psd = ZeroPsd
            ELSE /\ WellFormed(local_desired.msg)
                 /\ local_desired = DesiredOf(local_desired.msg)
                 /\ local_hack = Tag(find_params_psd(local_desired).hack, local_desired.msg)
                 /\ local_rb = Tag(find_params_psd(local_desired).rb, local_desired.msg)
                 /\ local_psd = Tag(find_params_psd(local_desired).psd, local_desired.msg))
    /\ [][/\ local_desired'.msg >= local_desired.msg
          /\ local_hack'.msg >= local_hack.msg]_vars

\* main holds the snapshot of the second message after the cycle of the first
\* one published its result, while the listener was free to run all along
C8_Witness ==
    /\ m_pc = "tune"
    /\ local_desired.msg = 2
    /\ local_hack.msg = 2
    /\ results = <<1>>

\* the parser rejects the document (it is not JSON, or parse_config_rf does
\* not return 0)
Rejected(p) == ~p.json \/ parse_config_rf(p).ret # 0

Repeat(j) ==
    /\ j \in 2..Len(msgs)
    /\ WellFormed(j)
    /\ msgs[j].payload = msgs[j - 1].payload
    /\ msgs[j].afterResult

C11_RetuneBeforeAcquisition ==
    /\ [][tunes' # tunes =>
              /\ m_pc = "tune"
              /\ m_pc' = "tune2"
              /\ rb_available(rb') = 0
              /\ stale' = 0]_vars
    /\ [][(m_pc = "tune2" /\ m_pc' # "tune2") =>
              /\ rb_available(audio_rb') = 0
              /\ m_pc' = "start"]_vars
    /\ [][(m_pc = "process" /\ rb'.tail # rb.tail) => stale = 0]_vars

\* the cycle of the second message retuned while RX was streaming, waited for
\* its acquisition and read it
C11_Witness ==
    /\ m_pc = "idle"
    /\ results = <<1, 2>>
    /\ tunes = 2
    /\ rx_on
    /\ rb.tail > 0
    /\ closedSinceResult = FALSE

\* C13: a pass through hardware prep that finds the device closed, or open
\* with nothing applied since its latest close, and does not fail to open it,
\* applies the configuration in full (one more tune event) whatever the
\* configuration is; and RX only ever streams from a device the
\* configuration has been applied to since it was opened.
C13_ReopenApplies ==
    /\ [][(m_pc = "tune" /\ m_pc' \in {"tune2", "start"} /\ hw_state # "applied") =>
              tunes' = tunes + 1]_vars
    /\ [](rx_on => hw_state = "applied")

\* C14 as stated: while the program runs, recovery ends only with the device
\* open again; after failed attempts it keeps trying and does not go back to
\* the idle test.
C14_RetriesForever ==
    [][(m_pc = "rec_try" /\ m_pc' = "idle" /\ keep_running) => device' = "dev"]_vars

\* C14 amended: recovery stops streaming and closes and nulls a device that
\* is open; it then tries hackrf_open at most RecoverAttempts times, each
\* failure counted; a successful open clears current_hw_cfg and main goes
\* back to the idle test; after the last failed attempt (or once shutdown is
\* requested) main goes back to the idle test as well, with the device closed
\* and current_hw_cfg as it was.
C14_ThreeAttempts ==
    /\ [][(m_pc = "rec_enter" /\ m_pc' # "rec_enter") =>
              IF device # "NULL"
              THEN stop_streaming' /\ m_pc' = "rec_stop"
              ELSE m_pc' = "rec_try" /\ UNCHANGED <<stop_streaming, rx_on, device>>]_vars
    /\ [][(m_pc = "rec_stop" /\ m_pc' # "rec_stop") =>
              device' = "NULL" /\ ~rx_on' /\ m_pc' = "rec_try"]_vars
    /\ [](m_pc = "rec_try" => device = "NULL" /\ attempts <= 3)
    /\ [][(m_pc = "rec_try" /\ m_pc' = "rec_try" /\ attempts' # attempts) =>
              attempts' = attempts + 1 /\ device' = "NULL" /\ keep_running]_vars
    /\ [][(m_pc = "rec_try" /\ m_pc' = "idle") =>
              \/ device' = "dev" /\ current_hw_cfg' = ZeroHack /\ attempts < 3
              \/ /\ device' = "NULL"
                 /\ attempts = 3 \/ ~keep_running
                 /\ current_hw_cfg' = current_hw_cfg]_vars

\* the third open attempt of a recovery that closed a tuned device has failed
\* and the program is still running
C14_Witness ==
    /\ m_pc = "rec_try"
    /\ attempts = 3
    /\ keep_running
    /\ hw_state = "rec_closed"
    /\ current_hw_cfg # ZeroHack

\* C15: the acquisition wait has two ways out.  With the polls used up and
\* the ring still short, main goes to recovery, reads nothing from the ring
\* and publishes nothing; it goes on to processing only when a poll found
\* the acquisition in the ring, and then it always does.
C15_Watchdog ==
    /\ [][(m_pc = "acq" /\ m_pc' # "acq" /\ safety_timeout = 0) =>
              m_pc' = "rec_enter" /\ rb' = rb /\ results' = results]_vars
    /\ [][(m_pc = "acq" /\ m_pc' = "process") =>
              rb_available(rb) >= local_rb.total_bytes]_vars
    /\ [][(m_pc = "acq" /\ m_pc' # "acq" /\ safety_timeout > 0 /\ keep_running
             /\ rb_available(rb) >= local_rb.total_bytes) =>
              m_pc' = "process"]_vars

\* C16: main decides on the idle shutdown only with no configuration pending
\* and the device open, and sets stop_streaming; the close that follows stops
\* RX, nulls the device and clears current_hw_cfg, and main is back at the
\* idle test; while main idles with the device closed nothing of this
\* changes; and the next pass through hardware prep that does not fail to
\* open the device opens it and applies the configuration in full.
C16_IdleShutdown ==
    /\ [][(m_pc = "idle" /\ m_pc' = "idle_close") =>
              device # "NULL" /\ ~config_received /\ stop_streaming']_vars
    /\ [][(m_pc = "idle_close" /\ m_pc' # "idle_close") =>
              /\ m_pc' = "idle"
              /\ device' = "NULL"
              /\ ~rx_on'
              /\ current_hw_cfg' = ZeroHack
              /\ stop_streaming']_vars
    /\ [][(m_pc = "idle" /\ m_pc' = "idle" /\ device = "NULL") =>
              UNCHANGED <<device, current_hw_cfg, stop_streaming, rx_on, hw_state>>]_vars
    /\ [](hw_state = "idle_closed" => current_hw_cfg = ZeroHack /\ ~rx_on)
    /\ [][(m_pc = "tune" /\ m_pc' \in {"tune2", "start"} /\ hw_state = "idle_closed") =>
              tunes' = tunes + 1 /\ device' = "dev" /\ m_pc' = "tune2"]_vars

\* the device was tuned for the first message and closed by the idle timeout
\* after its result; the second message repeats the first and its cycle is
\* about to prepare the hardware
C16_Witness ==
    /\ m_pc = "tune"
    /\ hw_state = "idle_closed"
    /\ device = "NULL"
    /\ tunes = 1
    /\ results = <<1>>
    /\ Repeat(local_hack.msg)

(***************************************************************************)
(* Properties of the audio worker (checked under SpecAudio).               *)
(***************************************************************************)
\* C12: no sample produced from IQ data received before a retune appears in
\* an audio frame emitted after it: a frame that goes out holding a sample of
\* the current epoch (a post-tune frame) holds no sample of an earlier epoch,
\* because the accumulator was emptied by the retune.
C12_NoPreTuneSample ==
    [][(/\ wire' # wire
        /\ wire'.complete
        /\ \E k \in 1..Len(wire'.pcm) : wire'.pcm[k].e = epoch)
          => \A k \in 1..Len(wire'.pcm) : wire'.pcm[k].e >= epoch]_vars

\* C17: every emitted frame has a 16-byte header whose payload_len is the
\* number of payload bytes that follow it; the first header sent on a
\* connection carries seq 0, each later one on that connection carries the
\* previous seq plus one, the transport's counter moves by one per encoded
\* frame and a new connection starts at seq 0.
C17_HeaderAndSeq ==
    /\ [](wire.complete => /\ HeaderLen(wire.hdr) = 16
                           /\ ntohl(wire.hdr.magic) = OpusMagic
                           /\ ntohs(wire.hdr.payload_len) = wire.payload)
    /\ [][(wire' # wire)
            => /\ wire'.conn = tx.conn
               /\ ntohl(wire'.hdr.seq) = tx.seq
               /\ ntohl(wire'.hdr.seq) = IF wire'.conn # wire.conn THEN 0
                                         ELSE ntohl(wire.hdr.seq) + 1]_vars
    /\ [][(tx' # tx /\ tx' # NullTx)
            => IF tx'.conn # tx.conn
               THEN tx'.seq = 0 /\ tx = NullTx
               ELSE tx'.seq = tx.seq + 1 /\ wire' # wire /\ wire'.complete]_vars

\* the second frame of the second connection went out at full size
C17_Witness ==
    /\ wire.complete
    /\ wire.conn = 2
    /\ ntohl(wire.hdr.seq) = 1
    /\ wire.payload = OpusOutSize
    /\ tx = [opus_tx_create(1) EXCEPT !.seq = 2]

\* the samples of s are consecutive outputs of the demodulator
Consecutive(s) == \A k \in 1..(Len(s) - 1) : s[k + 1].n = s[k].n + 1

\* what the worker holds and has not yet handed to the encoder
Pending == pcm_accum \o SubSeq(pcm_out, idx + 1, Len(pcm_out))

\* C18: every frame handed to the encoder holds exactly frame_samples
\* samples that are consecutive outputs of the demodulator; on one connection
\* a frame starts with the sample after the last one of the frame before it;
\* meanwhile the accumulator holds less than a frame, and accumulator and
\* the rest of the chunk together are exactly the samples produced since
\* the last frame (from the first sample on, before the first frame), so
\* left-overs are carried and nothing is dropped, duplicated or reordered.
C18_FramesAreTheStream ==
    /\ [][(enc_in' # enc_in)
            => /\ Len(enc_in'.pcm) = FrameSamples
               /\ Consecutive(enc_in'.pcm)
               /\ enc_in'.conn = tx.conn
               /\ enc_in'.conn = enc_in.conn
                    => enc_in'.pcm[1].n = enc_in.pcm[FrameSamples].n + 1
               /\ (enc_in = NoEnc /\ enc_in'.conn = 1) => enc_in'.pcm[1].n = 1]_vars
    /\ [](/\ Len(pcm_accum) < FrameSamples
          /\ idx <= Len(pcm_out)
          /\ Consecutive(Pending)
          /\ Pending # <<>> => Pending[Len(Pending)].n = produced
          /\ (tx # NullTx /\ tx.conn = enc_in.conn)
               => IF Pending = <<>> THEN enc_in.pcm[FrameSamples].n = produced
                  ELSE Pending[1].n = enc_in.pcm[FrameSamples].n + 1
          /\ (tx.conn = 1 /\ enc_in = NoEnc /\ Pending # <<>>) => Pending[1].n = 1)

\* the second frame of a connection went out; it began with a sample left
\* over from the chunk before the one being consumed
C18_Witness ==
    /\ aw_pc = "accum"
    /\ tx = [opus_tx_create(0) EXCEPT !.seq = 2]
    /\ wire.complete /\ wire.pcm = enc_in.pcm
    /\ 0 < idx /\ idx < Len(pcm_out)
    /\ enc_in.pcm[1].n < pcm_out[1].n
    /\ pcm_accum = <<>>

\* the frame handed to the encoder last did not go out whole
LastSendFailed == enc_in # NoEnc /\ (enc_in.pcm # wire.pcm \/ ~wire.complete)

\* C19: a frame that fails at the encoder, at the header or at the payload
\* leaves the worker with no transport, an empty accumulator and the whole
\* reconnect delay to sleep; the sleep goes down in steps of at most
\* SleepStepMs and ends at zero or when the running flag is cleared; the
\* next frame handed to the encoder is on a newer connection; and the
\* worker ends only once the running flag has been cleared.
C19_SendFailure ==
    /\ [][(enc_in' # enc_in /\ ~(wire' # wire /\ wire'.complete))
            => /\ tx' = NullTx
               /\ pcm_accum' = <<>>
               /\ left' = RECONNECT_DELAY_MS
               /\ aw_pc' = "fail_sleep"]_vars
    /\ [][(aw_pc = "fail_sleep")
            => /\ tx' = NullTx /\ pcm_accum' = <<>> /\ wire' = wire
               /\ IF aw_pc' = "fail_sleep"
                  THEN left' <= left /\ left - left' <= SleepStepMs
                  ELSE /\ aw_pc' = "loop"
                       /\ left = 0 \/ ~audio_thread_running]_vars
    /\ [][(enc_in' # enc_in /\ LastSendFailed)
            => /\ tx # NullTx
               /\ enc_in'.conn = tx.conn
               /\ enc_in'.conn > enc_in.conn]_vars
    /\ [][(aw_pc' = "exited" /\ aw_pc # "exited") => ~audio_thread_running]_vars

\* the peer closed during a payload, the worker slept the delay and holds a
\* new connection with nothing sent on it yet
C19_Witness ==
    /\ aw_pc = "wait"
    /\ audio_thread_running
    /\ tx = opus_tx_create(1)
    /\ enc_in.conn = 1
    /\ wire.conn = 1 /\ ~wire.complete /\ wire.pcm = enc_in.pcm
    /\ pcm_accum = <<>>
    /\ left = 0

\* C20: ensure_tx_with_retry returns at once, opening nothing, when a
\* transport exists; without one it goes to the connect loop; every return
\* of 0 leaves a transport in *ptx; a failed connect is followed by the
\* reconnect delay, slept in steps of at most SleepStepMs and cut short only
\* by a cleared running flag; while the flag is set the loop never gives
\* up; and -1 is returned only with the flag cleared and *ptx null.
C20_EnsureTx ==
    /\ [][(aw_pc = "ensure" /\ aw_pc' # "ensure")
            => IF tx # NullTx
               THEN aw_pc' = ReturnPc(ens_from) /\ tx' = tx /\ conns' = conns
               ELSE aw_pc' = "ens_loop" /\ tx' = NullTx /\ conns' = conns]_vars
    /\ [][(aw_pc \in {"ensure", "ens_loop"} /\ aw_pc' \in {"wait", "accum"})
            => tx' # NullTx]_vars
    /\ [][(aw_pc = "ens_loop" /\ aw_pc' # "ens_loop")
            => IF audio_thread_running
               THEN \/ /\ aw_pc' = ReturnPc(ens_from)
                       /\ tx = NullTx /\ tx' = opus_tx_create(conns)
                       /\ conns' = conns + 1
                    \/ /\ aw_pc' = "ens_sleep"
                       /\ left' = RECONNECT_DELAY_MS
                       /\ tx' = NullTx /\ conns' = conns
               ELSE aw_pc' = "exited" /\ tx = NullTx /\ tx' = NullTx]_vars
    /\ [][(aw_pc = "ens_sleep")
            => /\ tx' = NullTx /\ conns' = conns
               /\ IF aw_pc' = "ens_sleep"
                  THEN left' <= left /\ left - left' <= SleepStepMs
                  ELSE /\ aw_pc' = "ens_loop"
                       /\ left = 0 \/ ~audio_thread_running]_vars

\* after a failed send the first reconnect failed too, and the back-off
\* is in its last step
C20_Witness ==
    /\ aw_pc = "ens_sleep"
    /\ left = SleepStepMs
    /\ audio_thread_running
    /\ tx = NullTx
    /\ conns = 1
    /\ LastSendFailed

(***************************************************************************)
(* Properties of the threads of rf.c, continued (checked under Spec).      *)
(***************************************************************************)
\* C21: after SIGINT or SIGTERM the audio worker observes its running flag
\* and is joined: while main waits in pthread_join for a worker that has
\* begun its loop and has not ended, the flag main cleared is still clear,
\* so the worker's next loop test ends it.
C21_WorkerObservesStop ==
    (/\ m_pc = "join_audio"
     /\ audio_thread_created
     /\ aw_pc \notin {"start", "exited"})
        => ~audio_thread_running

\* the steps of main inside recover_hackrf
Recovering == m_pc \in {"rec_enter", "rec_stop", "rec_try"}

\* C22: the PSD cycle and the audio worker do not wait for each other.
\* Whatever the audio worker is doing (also when it never empties the audio
\* ring), main can always take its next step from hardware prep to
\* processing, a full acquisition leads to processing, and processing can
\* publish the result of its snapshot; no step of main before clean-up
\* changes the worker's running flag or moves the worker, other than
\* creating it; and during recovery a worker that is in its loop can
\* always take its next step.
C22_NoShortCircuit ==
    /\ []((fault = "none" /\ m_pc \in {"tune", "tune2", "start", "acq", "process",
                                        "rec_enter", "rec_try"})
            => ENABLED MainNext)
    /\ []((fault = "none" /\ m_pc = "process")
            => ENABLED (Main_process /\ results' = Append(results, local_desired.msg)))
    /\ []((fault = "none" /\ Recovering /\ aw_pc \in {"start", "loop", "read"})
            => ENABLED AwNext)
    /\ [][(m_pc = "acq" /\ m_pc' \notin {"acq", "rec_enter"})
            => m_pc' = "process"]_vars
    /\ [][(m_pc' # m_pc /\ m_pc # "cleanup")
            => /\ audio_thread_running' = audio_thread_running
               /\ aw_pc' = aw_pc \/ (aw_pc = "none" /\ aw_pc' = "start")]_vars

\* a result was published with the audio ring never emptied, and now the
\* worker is about to read a chunk while main is in its third attempt to
\* reopen the device
C22_Witness ==
    /\ m_pc = "rec_try" /\ attempts = 2
    /\ aw_pc = "read" /\ audio_thread_running
    /\ results = <<1>>
    /\ audio_rb.tail = 0 /\ rb_available(audio_rb) >= AudioChunkBytes

\* C23: every published result has exactly one result document, appended by
\* the processing step that published it; the document's start_freq_hz and
\* end_freq_hz are center - fs/2 and center + fs/2 of the configuration the
\* cycle snapshotted, its Pxx array has that configuration's nperseg entries,
\* and its metric is excursion_hz exactly in FM mode, depth exactly in AM mode
\* and absent in PSD mode
ResultDocument(d) ==
    [start_freq_hz |-> <<2 * d.center_freq - d.sample_rate, 2>>,
     end_freq_hz |-> <<2 * d.center_freq + d.sample_rate, 2>>,
     metric |-> CASE d.rf_mode = FM_MODE -> "excursion_hz"
                  [] d.rf_mode = AM_MODE -> "depth"
                  [] d.rf_mode = PSD_MODE -> "none",
     Pxx |-> find_params_psd(d).psd.nperseg]

C23_ResultDocument ==
    /\ [](/\ Len(docs) = Len(results)
          /\ \A k \in 1..Len(docs) :
                 docs[k] = ResultDocument(DesiredOf(results[k])))
    /\ [][docs' # docs =>
              /\ m_pc = "process" /\ m_pc' = "idle"
              /\ results' = Append(results, local_desired.msg)
              /\ Len(docs') = Len(docs) + 1
              /\ SubSeq(docs', 1, Len(docs)) = docs]_vars

C23_Witness ==
    /\ Len(docs) = 2
    /\ docs[1].metric = "depth"
    /\ docs[1].start_freq_hz = <<195, 2>>
    /\ docs[1].end_freq_hz = <<197, 2>>
    /\ docs[2].metric = "excursion_hz"
    /\ docs[1].Pxx = 256
    /\ m_pc = "idle"

\* C24: for every configuration the parser accepts, the derived nperseg is a
\* power of two >= 256, the least one that is >= ENBW * fs / rbw (rbw = 0
\* read as 1000 Hz) unless 256 is larger, and the derived noverlap satisfies
\* 0 <= noverlap < nperseg, with overlap >= 1 giving noverlap = nperseg - 1
C24_DerivedParams ==
    fn_out.fn = "find_params_psd" =>
        LET d == fn_out.desired
            nperseg == fn_out.psd.nperseg
            noverlap == fn_out.psd.noverlap
            a == get_window_enbw_factor(d.window_type) * d.sample_rate
            b == 1000 * (IF d.rbw = 0 THEN 1000 ELSE d.rbw)
        IN  /\ \E e \in 8..30 : nperseg = 2 ^ e
            /\ nperseg * b >= a
            /\ nperseg > 256 => (nperseg \div 2) * b < a
            /\ 0 <= noverlap
            /\ noverlap < nperseg
            /\ d.overlap >= OverlapDen => noverlap = nperseg - 1

\* C25: a field the document omits holds its documented default after a
\* parse that accepts the document (center frequency 98 MHz, sample rate 8 MHz, rbw 100 kHz, window
\* Hamming, antenna port 1, amplifier on); a window string that is not
\* recognised gives Hamming and an rf_mode string that is not recognised
\* gives PSD
C25_DocumentedDefaults ==
    (fn_out.fn = "parse_config_rf" /\ fn_out.ret = 0) =>
        LET doc == fn_in.payload
            target == fn_out.target
        IN  /\ doc.center_freq_hz = Absent => target.center_freq = 98000000
            /\ doc.sample_rate_hz = Absent => target.sample_rate = 8000000
            /\ doc.rbw_hz = Absent => target.rbw = 100000
            /\ doc.window = Absent => target.window_type = "HAMMING_TYPE"
            /\ doc.antenna_port = Absent => target.antenna_port = 1
            /\ doc.antenna_amp = Absent => target.amp_enabled
            /\ doc.window = <<"boxcar">> => target.window_type = "HAMMING_TYPE"
            /\ doc.rf_mode = <<"wideband">> => target.rf_mode = PSD_MODE

\* C26: a filter range that lies partly outside [center - fs/2, center + fs/2]
\* is stored clipped to that interval, no error is raised, and the channel
\* filter is applied with the clipped range
C26_FilterClipped ==
    LET f == fn_in.arg
        lo2 == 2 * f.fc_hz - f.fs_hz
        hi2 == 2 * f.fc_hz + f.fs_hz
        start2 == 2 * f.cfg.start_freq_hz
        end2 == 2 * f.cfg.end_freq_hz
        PartlyOutside == /\ start2 < end2 /\ start2 < hi2 /\ end2 > lo2
                         /\ (start2 < lo2 \/ end2 > hi2)
        clipped == <<IF start2 < lo2 THEN lo2 ELSE start2,
                     IF end2 > hi2 THEN hi2 ELSE end2>>
    IN  (/\ fn_out.fn = "chan_filter"
         /\ f.n_signal >= 2 /\ f.fs_hz > 0
         /\ fn_out.res.ret # -5
         /\ PartlyOutside)
        => /\ <<2 * fn_out.cfg.start_freq_hz, 2 * fn_out.cfg.end_freq_hz>> = clipped
           /\ fn_out.res.ret = 0
           /\ fn_out.res.passband # <<>>
           /\ <<2 * fn_out.res.passband[1], 2 * fn_out.res.passband[2]>> = clipped

SnapshotDiffers ==
    \E f \in {"center_freq", "sample_rate", "lna_gain", "vga_gain"} :
        local_hack[f] # current_hw_cfg[f]

C28_LazyRetunePredicate ==
    [][(m_pc = "tune" /\ m_pc' \notin {"tune", "rec_enter"}) =>
          IF SnapshotDiffers
          THEN /\ tunes' = tunes + 1
               /\ \A f \in {"center_freq", "sample_rate", "lna_gain", "vga_gain",
                              "amp_enabled", "ppm_error"} :
                      current_hw_cfg'[f] = local_hack[f]
               /\ rb' = rb_reset(rb)
               /\ m_pc' = "tune2"
          ELSE /\ tunes' = tunes
               /\ current_hw_cfg' = current_hw_cfg
               /\ rb' = rb
               /\ audio_rb' = audio_rb
               /\ m_pc' = "start"]_vars

C28_Witness ==
    /\ m_pc = "start"
    /\ local_desired.msg = 2
    /\ results = <<1>>
    /\ tunes = 1
    /\ device = "dev"
    /\ ~SnapshotDiffers
    /\ local_hack.center_freq = 98

\* C29: the audio worker thread is created at most once, and the step that
\* creates it is the processing of a configuration whose mode is FM or AM (a
\* configuration in PSD mode does not start it)
C29_StartedOnFirstNonPsd ==
    [][(aw_pc' = "start" /\ aw_pc # "start") =>
          /\ aw_pc = "none"
          /\ ~audio_thread_created
          /\ local_desired.rf_mode \in {FM_MODE, AM_MODE}]_vars

\* C30: the TCP connection on which an audio frame has been sent has
\* keep-alive (idle 10 s, interval 3 s, count 3) and 1.5 s send and receive
\* timeouts set on its socket
C30_SocketConfigured ==
    (tx # NullTx /\ wire # NoFrame /\ wire.conn = tx.conn) =>
        /\ tx.sock_fd.keepalive
        /\ tx.sock_fd.keepidle_s = 10
        /\ tx.sock_fd.keepintvl_s = 3
        /\ tx.sock_fd.keepcnt = 3
        /\ tx.sock_fd.sndtimeo_ms = 1500
        /\ tx.sock_fd.rcvtimeo_ms = 1500


(***************************************************************************)
(* SpecRadio: the program of SpecCycle with the demodulator state.  The    *)
(* orchestrator's radio block (rf.c:622-634) is a step of its own between  *)
(* the tune and pthread_create, and the worker's demodulation call          *)
(* (rf.c:411-425) is a position of its own after rb_read.  fn_out holds     *)
(* main's last_radio_sample_rate and the rate the radios were last          *)
(* initialised for; NoCall is the state before the first fm_radio_init.     *)
(***************************************************************************)
P_fm2 == Doc(<<"FM">>, <<98>>, <<2>>, <<16>>, <<20>>)

RadioPayloads == {P_fm, P_fm2}

\* double last_radio_sample_rate = 0.0 (rf.c:544) until the block has run
last_radio_sample_rate == IF fn_out = NoCall THEN 0 ELSE fn_out.last_radio_sample_rate

\* the test of rf.c:624
RadioReinit ==
    ~audio_thread_created \/ last_radio_sample_rate # local_hack.sample_rate

RadioInit ==
    /\ CycleInit
    /\ msgs[1].payload = P_fm

\* the controller sends one more FM request, at either sample rate
Radio_send ==
    /\ fault = "none"
    /\ Len(msgs) < MaxMsgs
    /\ \E p \in RadioPayloads :
           /\ inbox' = Append(inbox, [id |-> Len(msgs) + 1, payload |-> p])
           /\ msgs' = Append(msgs, [payload |-> p,
                                    afterResult |-> \E k \in 1..Len(results) :
                                                       results[k] = Len(msgs)])
    /\ UNCHANGED <<rb, audio_rb, audio_enabled, stop_streaming, config_received,
                 keep_running, audio_thread_running, cfg_mutex,
                 desired_config, psd_cfg, hack_cfg, rb_cfg, current_hw_cfg,
                 device, m_pc, local_hack, local_rb, local_psd, local_desired,
                 audio_thread_created, audio_ctx, safety_timeout, attempts,
                 pair_running, l_pc, temp_desired, rx_on, cb_pc, transfer,
                 aw_pc, results, tunes, closedSinceResult, cb_took, fault,
                 stale, hw_state, docs, ringVars, audioVars, fnVars>>

\* if (!audio_thread_created || fabs(last_radio_sample_rate -
\* local_hack.sample_rate) > 1e-6) { fm_radio_init; am_radio_local_init;
\* last_radio_sample_rate = ...; memset fm_dev, am_depth }
Main_radio_init ==
    /\ fault = "none"
    /\ m_pc = "start"
    /\ fn_out' = IF RadioReinit
                 THEN [fn |-> "radio",
                       last_radio_sample_rate |-> local_hack.sample_rate,
                       fm_radio |-> local_hack.sample_rate,
                       am_radio |-> local_hack.sample_rate,
                       fm_dev |-> 0, am_depth |-> 0]
                 ELSE fn_out
    /\ m_pc' = "create"
    /\ UNCHANGED <<rb, audio_rb, audio_enabled, stop_streaming, config_received,
                 keep_running, audio_thread_running, cfg_mutex,
                 desired_config, psd_cfg, hack_cfg, rb_cfg, current_hw_cfg,
                 device, local_hack, local_rb, local_psd, local_desired,
                 audio_thread_created, audio_ctx, safety_timeout, attempts,
                 pair_running, l_pc, temp_desired, rx_on, cb_pc, transfer,
                 aw_pc, inbox, msgs, results, tunes, closedSinceResult,
                 cb_took, fault, stale, hw_state, docs, ringVars, audioVars,
                 fn_in>>

\* pthread_create and hackrf_start_rx, after the radio block
Main_create == Main_start_from("create")

\* rb_read(&audio_rb, raw_iq_chunk, ...), the conversion to float and
\* mode = atomic_load(&ctx->current_mode): the worker is about to call
\* am_radio_local_iq_to_pcm or fm_radio_iq_to_pcm
Aw_rb_read ==
    /\ fault = "none"
    /\ aw_pc = "read"
    /\ audio_rb' = rb_read(audio_rb, AudioChunkBytes).rb
    /\ aw_pc' = "demod"
    /\ UNCHANGED <<rb, audio_enabled, stop_streaming, config_received,
                 keep_running, audio_thread_running, cfg_mutex,
                 desired_config, psd_cfg, hack_cfg, rb_cfg, current_hw_cfg,
                 device, m_pc, local_hack, local_rb, local_psd, local_desired,
                 audio_thread_created, audio_ctx, safety_timeout, attempts,
                 pair_running, l_pc, temp_desired, rx_on, cb_pc, transfer,
                 inbox, msgs, results, tunes, closedSinceResult, cb_took,
                 fault, stale, hw_state, docs, ringVars, audioVars, fnVars>>

\* the demodulation call returns (it reads and updates the radio and the
\* metric state all along); the frames are sent; back to the loop test
Aw_demod ==
    /\ fault = "none"
    /\ aw_pc = "demod"
    /\ aw_pc' = "loop"
    /\ fn_out' = IF fn_out = NoCall THEN fn_out
                 ELSE [fn_out EXCEPT !.fm_dev = 1, !.am_depth = 1]
    /\ UNCHANGED <<rb, audio_rb, audio_enabled, stop_streaming, config_received,
                 keep_running, audio_thread_running, cfg_mutex,
                 desired_config, psd_cfg, hack_cfg, rb_cfg, current_hw_cfg,
                 device, m_pc, local_hack, local_rb, local_psd, local_desired,
                 audio_thread_created, audio_ctx, safety_timeout, attempts,
                 pair_running, l_pc, temp_desired, rx_on, cb_pc, transfer,
                 inbox, msgs, results, tunes, closedSinceResult, cb_took,
                 fault, stale, hw_state, docs, ringVars, audioVars, fn_in>>

RadioNext ==
    \/ Radio_send
    \/ Main_idle \/ Main_idle_close \/ Main_snap1 \/ Main_snap2
    \/ Main_tune \/ Main_tune2 \/ Main_radio_init \/ Main_create
    \/ Main_acq \/ Main_process
    \/ Main_rec_enter \/ Main_rec_stop \/ Main_rec_try
    \/ Listener_recv \/ Listener_audio_on \/ Listener_pub1 \/ Listener_pub2
    \/ Cb_write_main \/ Cb_audio
    \/ Aw_start \/ Aw_wait \/ Aw_rb_read \/ Aw_demod

SpecRadio == RadioInit /\ [][RadioNext]_vars

\* C31: when a processing cycle ends, on every path, every buffer the cycle
\* allocated has been freed, the activity time has been stamped and main is
\* back at the idle test; a cycle in which an allocation failed has
\* published nothing; a buffer is in use only between its allocation and
\* its release
AllocationFailed(c) ==
    \/ ~c.ok.linear_buffer
    \/ ~c.ok.sig
    \/ ~c.ok.signal_iq
    \/ ~c.ok.freq
    \/ ~c.ok.psd

C31_BuffersReleased ==
    fn_out.fn = "processing" =>
        /\ fn_out.pc = "idle" => fn_out.heap = {} /\ fn_out.stamped
        /\ AllocationFailed(fn_out) => ~fn_out.published
        /\ fn_out.published => fn_out.read
        /\ fn_out.pc = "publish" => fn_out.heap = CycleBuffers
        /\ fn_out.heap \subseteq {b \in CycleBuffers : fn_out.ok[b]}

C31_Witness ==
    /\ fn_out.fn = "processing"
    /\ fn_out.pc = "idle"
    /\ fn_out.ok.linear_buffer /\ fn_out.ok.sig /\ fn_out.ok.signal_iq
    /\ fn_out.ok.freq /\ ~fn_out.ok.psd
    /\ fn_out.read
    /\ ~fn_out.published
    /\ fn_out.heap = {}

\* C32: every ring operation (rb_write by the RX callback, rb_reset by the
\* control callback and by main, rb_available and rb_read by main and by the
\* audio worker) is made on a ring that rb_init has set up and rb_free has
\* not yet released
RingLive(r) == r.size > 0 /\ r.buffer # <<>>

C32_RingLifetime ==
    [][/\ (cb_pc = "idle" /\ (cb_pc' = "audio" \/ fault' # fault)) => RingLive(rb)
       /\ (cb_pc = "audio" /\ (cb_pc' = "idle" \/ fault' # fault) /\ audio_enabled)
              => RingLive(audio_rb)
       /\ (l_pc = "recv" /\ l_pc' = "audio_on") => RingLive(audio_rb)
       /\ (m_pc = "tune" /\ m_pc' = "tune2") => RingLive(rb)
       /\ (m_pc = "tune2" /\ m_pc' = "start") => RingLive(audio_rb)
       /\ (m_pc = "start" /\ m_pc' # "start" /\ stop_streaming)
              => RingLive(rb) /\ RingLive(audio_rb)
       /\ (m_pc = "acq" /\ safety_timeout' # safety_timeout) => RingLive(rb)
       /\ (m_pc = "process" /\ m_pc' = "idle") => RingLive(rb)
       /\ (aw_pc = "loop" /\ aw_pc' \in {"loop", "read"} /\ audio_thread_running)
              => RingLive(audio_rb)
       /\ (aw_pc = "read" /\ aw_pc' = "loop") => RingLive(audio_rb)]_vars


\* C33: every chunk the audio worker converts is made of exactly
\* AUDIO_CHUNK_SAMPLES * 2 bytes that the rb_read of the same iteration
\* returned, also when rb_reset(&audio_rb) runs between the worker's
\* rb_available test and its rb_read (checked under SpecAudio).
C33_ChunkFromThisRead ==
    [][(aw_pc = "read" /\ aw_pc' # "read") =>
          /\ rb_read(audio_rb, AudioChunkBytes).ret = AudioChunkBytes
          /\ raw_iq_chunk' = rb_read(audio_rb, AudioChunkBytes).data]_vars


\* C34: the orchestrator never writes the demodulator and metric state (the
\* FM radio, the AM radio, fm_dev, am_depth) while the audio worker is inside
\* a demodulation call: the re-initialisation on a sample-rate change does
\* not interleave with fm_radio_iq_to_pcm / am_radio_local_iq_to_pcm
\* (checked under SpecRadio).
C34_RadioStateExclusive ==
    [][(m_pc = "start" /\ m_pc' = "create" /\ RadioReinit) => aw_pc # "demod"]_vars


\* main has executed audio_thread_running = false of its clean-up
ShutdownCleared == m_pc \in {"join_audio", "join_listener", "dev_close", "done"}

\* C35: once shutdown has cleared audio_thread_running the flag is never set
\* true again, whatever the order of pthread_create, the worker's start-up
\* store and the shutdown; so no step taken after the clearing store leaves
\* the flag true (checked under Spec).
C35_FlagStaysClear ==
    [][ShutdownCleared => ~audio_thread_running']_vars


\* C36: in every reachable state a null device handle implies that
\* stop_streaming is true.  The callback accepts bytes only while the device
\* is open and RX has been started, and after the idle-timeout close or a
\* recovery no byte enters either ring until RX is started again, which is
\* preceded by the reset of both rings (checked under Spec).
C36_ClosedDeviceQuiet ==
    /\ [](device = "NULL" => stop_streaming /\ ~rx_on /\ cb_pc = "idle")
    /\ [][/\ cb_pc' # cb_pc => device = "dev" /\ rx_on
          /\ (cb_pc = "idle" /\ cb_pc' = "audio") => ~stop_streaming
          /\ (~rx_on /\ rx_on') =>
                 /\ device = "dev"
                 /\ stop_streaming /\ ~stop_streaming'
          /\ (stop_streaming /\ ~stop_streaming') =>
                 /\ rb' = rb_reset(rb)
                 /\ audio_rb' = rb_reset(audio_rb)]_vars

\* the device was streaming and recover_hackrf has closed it
C36_Witness ==
    /\ device = "NULL"
    /\ hw_state = "rec_closed"
    /\ stop_streaming
    /\ tunes > 0
    /\ rb_available(rb) > 0


\* control messages the listener has taken from the socket
Received == Len(msgs) - Len(inbox)

\* ... and has finished with (published under cfg_mutex, or rejected)
Handled == IF l_pc \in {"audio_on", "pub1", "pub2"} THEN Received - 1 ELSE Received

\* the latest of the first n messages that the parser accepts, or 0
LatestAccepted(n) ==
    LET S == {id \in 1..n : ~Rejected(msgs[id].payload)}
    IN  IF S = {} THEN 0 ELSE CHOOSE id \in S : \A o \in S : o <= id

\* C37: each accepted configuration message is processed by at most one
\* cycle.  The results published never outnumber the accepted messages and
\* no message has two results; messages that arrive during a cycle coalesce,
\* the next snapshot being that of the latest one; and an accepted message
\* is not lost around the snapshot: whenever cfg_mutex is free,
\* config_received is set exactly when the published configuration is not
\* the one main holds (checked under Spec).
C37_OneCyclePerMessage ==
    /\ [](/\ Len(results) <= Cardinality({id \in 1..Received :
                                            ~Rejected(msgs[id].payload)})
          /\ \A i \in 1..Len(results) :
                 /\ results[i] \in 1..Received
                 /\ ~Rejected(msgs[results[i]].payload)
                 /\ \A j \in 1..Len(results) : i < j => results[i] < results[j]
          /\ cfg_mutex = "none" =>
                 /\ hack_cfg.msg = LatestAccepted(Handled)
                 /\ config_received <=> (hack_cfg.msg # local_hack.msg))
    /\ [][(m_pc = "snap1" /\ m_pc' = "snap2") =>
              /\ local_hack'.msg = LatestAccepted(Handled)
              /\ local_hack'.msg > local_hack.msg]_vars

\* the second message was sent while the cycle of the first was running, and
\* each of the two got its own result
C37_Witness ==
    /\ results = <<1, 2>>
    /\ ~msgs[2].afterResult
    /\ m_pc = "idle"
    /\ ~config_received


\* the mode main published to the worker is PSD and the listener has audio
\* disabled
PsdAudioOff == audio_ctx.current_mode = PSD_MODE /\ ~audio_enabled

\* C38: the audio worker demodulates and emits frames only while the mode is
\* FM or AM.  While the mode is PSD no chunk is taken for demodulation and
\* none is demodulated, the bytes left in the audio ring when audio was
\* disabled included (checked under Spec).
C38_DemodOnlyInAudioModes ==
    [][/\ (aw_pc = "loop" /\ aw_pc' = "read") => ~PsdAudioOff
       /\ (aw_pc = "read" /\ aw_pc' = "loop") => ~PsdAudioOff]_vars


C40_TerminatorInsideBuffer ==
    (fn_out.fn = "listener_thread" /\ fn_out.res.callback) =>
        /\ fn_out.res.nul_index >= 0
        /\ fn_out.res.nul_index < ZBUF_SIZE
        /\ fn_out.res.nul_index = fn_out.res.copied

====
